---- MODULE Spec2Model ----
(***************************************************************************)
(* Snapshot lifecycle engine of the save-game backup manager               *)
(* (src/backup.py, class SaveBackupManager): staged creation of a          *)
(* snapshot, publish by rename or by copy-then-delete, recovery of         *)
(* leftover staging directories at construction, retention pruning,        *)
(* restore and delete.                                                      *)
(*                                                                         *)
(* A directory is a function from relative paths to file contents.  The    *)
(* description and metadata sidecars are files of the directory they lie   *)
(* in.  A relative path is a sequence of names.  An entry of the backup    *)
(* root is named by a record [dot, ts, sfx]: the text                      *)
(*   (dot ? "." : "") + "backup_" + ts + (sfx > 0 ? "." + sfx : "")        *)
(* so backup_<ts> is [dot |-> FALSE, ts, sfx |-> 0] and the mkdtemp name   *)
(* .backup_<ts>.<random> is [dot |-> TRUE, ts, sfx > 0].                   *)
(*                                                                         *)
(* Every file-system call that can raise is a nondeterministic choice      *)
(* between its success and its failure.  The field completed_at of the     *)
(* metadata (a second clock reading) is not modelled.                      *)
(***************************************************************************)
EXTENDS Integers, Sequences, FiniteSets, TLC

\* ------------------------------------------------------------- bounds
\* clock readings (the second-resolution timestamp of strftime) are 1..MaxTime
MaxTime == 2
\* temp dirs of one timestamp that can lie in the backup root together; mkdtemp
\* draws a random suffix that is free, modelled as the least free one of 1..MaxSfx
MaxSfx == 2
\* values of max_backups a manager is constructed with are 1..MaxKeep
MaxKeep == 2
\* operations started in one behaviour (the restart after a crash not counted)
MaxOps == 2
\* process crashes in one behaviour
MaxCrashes == 1
\* file-system calls that fail (or meet EXDEV) in one behaviour
MaxFaults == 1
\* user edits of the save directory in one behaviour
MaxEdits == 1
\* worker threads of the UI alive together
MaxThreads == 2
\* the largest retries setting, and the largest retry_delay (in units of time)
MaxRetries == 3
MaxDelay == 2

Times == 1..MaxTime

\* ------------------------------------------------------------- names
DescName == ".backup_description"
MetaName == ".backup_meta.json"
DescPath == <<DescName>>
MetaPath == <<MetaName>>

\* locations of the backup root: outside the save directory, or nested in it
\* under the directory name "backups" or under another name ("bk")
Locations == {"outside", "backups", "bk"}

\* the files a user keeps in the save directory
UserPaths == {<<"a.txt">>, <<"b", "c.txt">>, <<"x.tmp">>}
\* further files of a save directory: a second file in directory b, and a
\* file of the user that is called backups
WidePaths == {<<"b", "a.txt">>, <<"b", "backups">>}
\* what copytree brings along from a backup root nested in the save directory
NestedPath(loc) == <<loc, "copy">>

\* lexicographic order of the names that occur (str comparison of sorted())
SortedNames ==
  <<".backup_description", ".backup_meta.json", "a", "a.txt", "a1", "b", "backups",
    "bk", "c.txt", "copy", "x.tmp">>
NameRank(n) == CHOOSE i \in 1..Len(SortedNames) : SortedNames[i] = n

\* name.encode('utf-8'): the bytes of a name
Chars(n) ==
  CASE n = ".backup_description" -> <<46, 98, 97, 99, 107, 117, 112, 95, 100, 101, 115, 99, 114, 105, 112, 116, 105, 111, 110>>
    [] n = ".backup_meta.json" -> <<46, 98, 97, 99, 107, 117, 112, 95, 109, 101, 116, 97, 46, 106, 115, 111, 110>>
    [] n = "a" -> <<97>>
    [] n = "a.txt" -> <<97, 46, 116, 120, 116>>
    [] n = "a1" -> <<97, 49>>
    [] n = "b" -> <<98>>
    [] n = "backups" -> <<98, 97, 99, 107, 117, 112, 115>>
    [] n = "bk" -> <<98, 107>>
    [] n = "c.txt" -> <<99, 46, 116, 120, 116>>
    [] n = "copy" -> <<99, 111, 112, 121>>
    [] n = "x.tmp" -> <<120, 46, 116, 109, 112>>

\* str(n).encode('utf-8'): the decimal digits of a number
RECURSIVE Decimal(_)
Decimal(n) ==
  IF n < 10 THEN <<48 + n>> ELSE Decimal(n \div 10) \o <<48 + (n % 10)>>

\* os.path.relpath(...).replace('\\', '/'): the names of a path with "/" between
RECURSIVE RelPath(_)
RelPath(p) ==
  IF Len(p) = 1 THEN Chars(p[1]) ELSE Chars(p[1]) \o <<47>> \o RelPath(Tail(p))

\* the extension of a name, for fnmatch against "*.pyc" and "*.tmp"
Ext(n) ==
  CASE n = "x.tmp" -> "tmp"
    [] n \in {"a.txt", "c.txt"} -> "txt"
    [] n = MetaName -> "json"
    [] OTHER -> ""

\* ------------------------------------------------------------- contents
NoMeta ==
  [present |-> FALSE, checksum |-> <<>>, files |-> 0, size_bytes |-> 0,
   move_method |-> "none", description |-> 0, recovered |-> FALSE]

Data(b) == [bytes |-> b, meta |-> NoMeta]
MetaFile(m) == [bytes |-> <<>>, meta |-> m]
\* a description d > 0 is the text <<d>>
TextFile(d) == [bytes |-> <<d>>, meta |-> NoMeta]

DataContents == {Data(<<1>>)}

\* the text json.dumps writes for a metadata record, in short: its values
\* between braces, the keys and completed_at left out
MethodBytes(m) ==
  CASE m = "atomic" -> <<97>>
    [] m = "copied" -> <<99>>
    [] m = "recovered_atomic" -> <<114, 97>>
    [] m = "recovered_copied" -> <<114, 99>>
    [] OTHER -> <<>>
MetaBytes(m) ==
  <<123>> \o m.checksum \o <<44>> \o Decimal(m.files) \o <<44>>
    \o Decimal(m.size_bytes) \o <<44>> \o MethodBytes(m.move_method)
    \o (IF m.description > 0 THEN <<44, m.description>> ELSE <<>>)
    \o (IF m.recovered THEN <<44, 116>> ELSE <<>>) \o <<125>>

\* what reading the file gives
Bytes(c) == IF c.meta.present THEN MetaBytes(c.meta) ELSE c.bytes

\* st_size: the number of bytes of the file
Size(c) == Len(Bytes(c))

EmptyFiles == [p \in {} |-> Data(<<>>)]

\* f with path p written / removed
Put(f, p, c) == [q \in DOMAIN f \cup {p} |-> IF q = p THEN c ELSE f[q]]
Drop(f, P) == [q \in DOMAIN f \ P |-> f[q]]

\* ------------------------------------------------------------- walking
\* sum of get_directory_size
RECURSIVE SumSize(_, _)
SumSize(f, P) ==
  IF P = {} THEN 0
  ELSE LET p == CHOOSE q \in P : TRUE IN Size(f[p]) + SumSize(f, P \ {p})

get_directory_size(f) == SumSize(f, DOMAIN f)

\* sum(len(files) for _, _, files in os.walk(path))
WalkCountOrOne(f) == IF DOMAIN f = {} THEN 1 ELSE Cardinality(DOMAIN f)
WalkCount(f) == Cardinality(DOMAIN f)

\* the names S of one directory in the order the file system hands them out;
\* en lists every name in that order
ListDir(S, en) == LET In(n) == n \in S IN SelectSeq(en, In)

\* list.sort() of names
SortNamesNot(q) == q
SortNames(q) ==
  LET S == {q[i] : i \in DOMAIN q}
  IN [i \in 1..Len(q) |->
        CHOOSE x \in S : Cardinality({y \in S : NameRank(y) < NameRank(x)}) = i - 1]

\* the files of subdirectory d as os.walk yields them, files sorted
WalkDir(f, d, en) ==
  LET inner == SortNames(ListDir({p[2] : p \in {q \in DOMAIN f : Len(q) > 1 /\ q[1] = d}}, en))
  IN [i \in 1..Len(inner) |-> <<d, inner[i]>>]

RECURSIVE WalkDirs(_, _, _)
WalkDirs(f, ds, en) ==
  IF ds = <<>> THEN <<>> ELSE WalkDir(f, Head(ds), en) \o WalkDirs(f, Tail(ds), en)

\* os.walk(path) with dirs.sort() and files.sort() at each level: the files of
\* the directory in name order, then its subdirectories in name order (the
\* trees here are two levels deep)
Walk(f, en) ==
  LET fs == SortNames(ListDir({p[1] : p \in {q \in DOMAIN f : Len(q) = 1}}, en))
      ds == SortNames(ListDir({p[1] : p \in {q \in DOMAIN f : Len(q) > 1}}, en))
  IN [i \in 1..Len(fs) |-> <<fs[i]>>] \o WalkDirs(f, ds, en)

\* what h.update is given, file after file: relative path, size, content
RECURSIVE Feed(_, _)
Feed(f, o) ==
  IF o = <<>> THEN <<>>
  ELSE RelPath(Head(o)) \o Decimal(Size(f[Head(o)])) \o Bytes(f[Head(o)])
         \o Feed(f, Tail(o))

\* compute_directory_sha256 on a directory that the file system enumerates in
\* the order en; sha256 is taken as injective, the digest is what it was fed
Digest(f, en) == Feed(f, Walk(f, en))

\* the enumeration order has no influence (C19): it is fixed here
compute_directory_sha256(f) == Digest(f, SortedNames)

\* ------------------------------------------------------------- root entries
Final(t) == [dot |-> FALSE, ts |-> t, sfx |-> 0]
Stage(t, s) == [dot |-> TRUE, ts |-> t, sfx |-> s]

\* glob "backup_*": the name begins with backup_
GlobMatchAnywhere(n) == TRUE
GlobMatch(n) == ~n.dot

\* name.startswith('.backup_')
IsTmpName(n) == n.dot

\* name[1:].split('.', 1)[0], as the path backup_dir / final_base
FinalBaseUnstripped(n) == n
FinalBase(n) == [dot |-> FALSE, ts |-> n.ts, sfx |-> 0]

\* str order of two entry names: "." sorts before "b", then the fixed-width
\* timestamp, then the shorter name first
NameLess(a, b) ==
  \/ a.dot /\ ~b.dot
  \/ a.dot = b.dot /\ a.ts < b.ts
  \/ a.dot = b.dot /\ a.ts = b.ts /\ a.sfx < b.sfx

\* sorted(S, reverse=True)
SortedAsc(S) ==
  [i \in 1..Cardinality(S) |->
     CHOOSE x \in S : Cardinality({y \in S : NameLess(y, x)}) = i - 1]
SortedDesc(S) ==
  [i \in 1..Cardinality(S) |->
     CHOOSE x \in S : Cardinality({y \in S : NameLess(x, y)}) = i - 1]

Range(s) == {s[i] : i \in DOMAIN s}

\* ignore_patterns("backups", "*.pyc", "__pycache__", "*.tmp"), applied by
\* copytree to the names of every directory level
IgnoredName(n) == n \in {"backups", "__pycache__"} \/ Ext(n) \in {"pyc", "tmp"}
Ignored(p) == \E i \in 1..Len(p) : IgnoredName(p[i])

VARIABLES
  cfg,         \* the manager's configuration: max_backups, skip_locked_files, loc
  save,        \* files of the save directory (the nested backup root excluded)
  root,        \* backup root: entry name -> [files, pending]; pending is
               \* history: the files the entry still lacks to be a full copy
  rootExists,  \* the backup root directory exists
  pc,          \* position of the one running operation
  op,          \* its local variables (and what it has done so far)
  ret,         \* what the last finished operation returned
  hist,        \* history of the behaviour
  nops,        \* operations started
  ncrashes,    \* crashes
  nfaults,     \* failed file-system calls
  nedits,      \* user edits
  dg,          \* two directories given to compute_directory_sha256, and the digests
  ui,          \* the reference UI: manager, open dialog, worker threads, UI
               \* thread, last notification
  sc,          \* one call of _safe_copy: its settings, its place, what it did
  m2           \* the recovery scan of a second manager made on the same backup
               \* root while the first is in create_backup

vars ==
  <<cfg, save, root, rootExists, pc, op, ret, hist, nops, ncrashes, nfaults, nedits, dg,
    ui, sc, m2>>

\* no second manager
NoScan == [at |-> "none", todo |-> {}]

\* no call of _safe_copy
NoCopy ==
  [retries |-> 0, retry_delay |-> 0, skip_locked_files |-> FALSE, nt |-> FALSE,
   attempt |-> 0, at |-> "none", tries |-> 0, slept |-> <<>>, result |-> "none"]

\* ------------------------------------------------------------- helpers
NoName == [dot |-> FALSE, ts |-> 0, sfx |-> 0]
NoRoot == [n \in {} |-> [files |-> EmptyFiles, pending |-> {}]]

NoOp ==
  [kind |-> "none", name |-> NoName, tmp |-> NoName, desc |-> 0,
   failed |-> FALSE, method |-> "none", todo |-> {}, moving |-> {},
   items |-> {}, queue |-> <<>>,
   before |-> <<>>, keep |-> 0, undeleted |-> FALSE,
   changed |-> FALSE, left |-> FALSE, restored |-> {}, digest |-> <<>>,
   skipped |-> {}, refused |-> {}, rename |-> "none", meta |-> "none",
   stuck |-> {}, found |-> {}, progress |-> <<>>, total |-> 0,
   listed |-> <<>>]

\* show_progress: the calls an operation has made so far are kept as the
\* sequence of their first arguments; n calls of copy_with_progress, each
\* with the counter one higher
ShowProgress(calls, current) == Append(calls, current)
RECURSIVE CopyWithProgress(_, _)
CopyWithProgress(calls, n) ==
  IF n = 0 THEN calls ELSE CopyWithProgress(ShowProgress(calls, Len(calls) + 1), n - 1)

NewDir(pending) == [files |-> EmptyFiles, pending |-> pending]

RemoveAll(r, n) == [m \in {} |-> r[m]]
Remove(r, n) == [m \in DOMAIN r \ {n} |-> r[m]]
Add(r, n, d) == [m \in DOMAIN r \cup {n} |-> IF m = n THEN d ELSE r[m]]
\* os.replace(src, dst) of a directory
RenameKeepingSource(r, src, dst) == Add(r, dst, r[src])
Rename(r, src, dst) == Add(Remove(r, src), dst, r[src])
\* a file written into entry n; it is no longer missing from n
WriteTo(r, n, p, c) ==
  [r EXCEPT ![n] = [files |-> Put(@.files, p, c), pending |-> @.pending \ {p}]]

RECURSIVE RootCount(_, _)
RootCount(r, N) ==
  IF N = {} THEN 0
  ELSE LET n == CHOOSE m \in N : TRUE
       IN WalkCount(r[n].files) + RootCount(r, N \ {n})

\* the backup root is an entry of the save directory
Nested == cfg.loc # "outside" /\ rootExists

\* _get_backup_list
GetBackupList(r) == SortedDesc({n \in DOMAIN r : GlobMatch(n)})

List == GetBackupList(root)

\* the listed backups of a backup root, each with what it holds
Listed(r) == [n \in Range(GetBackupList(r)) |-> r[n]]

\* backups[keep:], what the pruning deletes
ExcessOneMore(l, keep) ==
  IF Len(l) > keep + 1 THEN SubSeq(l, keep + 2, Len(l)) ELSE <<>>
Excess(l, keep) ==
  IF Len(l) > keep THEN SubSeq(l, keep + 1, Len(l)) ELSE <<>>

Returned(o, ok, v) == [op |-> o, ok |-> ok, val |-> v]

B(b) == IF b THEN 1 ELSE 0
\* n file-system calls of the step fail
Faults(n) == nfaults + n <= MaxFaults /\ nfaults' = nfaults + n
\* a call failed with an error (EXDEV is none); io keeps the steps of the
\* running operation at which one did
ErredAt(h, b, step) ==
  [h EXCEPT !.errors = @ \/ b, !.io = IF b THEN @ \cup {step} ELSE @]
Erred(h, b) == ErredAt(h, b, pc)
\* an operation begins
Began(h) == [h EXCEPT !.io = {}]
NoMade == [name |-> NoName, digest |-> <<>>]
\* something else than a create_backup that returns a path has happened
NotPlain(h) == [h EXCEPT !.plain = FALSE, !.creates = <<>>, !.made = NoMade]

\* ------------------------------------------------------------- create_backup
\* history of a create_backup that fails after mkdtemp: whether the finally
\* block removed the temp dir
Failed(h, erred, cleaned) ==
  [NotPlain(ErredAt(Erred(h, erred), ~cleaned, "cleanup"))
     EXCEPT !.cleanup = IF cleaned THEN "removed" ELSE "failed"]

\* the finally block: the temp dir, if it still exists, is removed, and a
\* failure of that removal is swallowed; then the call returns None
FailAsSuccess(r, cleaned) ==
  /\ root' = IF cleaned /\ op.tmp \in DOMAIN r THEN Remove(r, op.tmp) ELSE r
  /\ pc' = "idle"
  /\ op' = NoOp
  /\ ret' = Returned("create", TRUE, op.name)
FailLeavingTemp(r, cleaned) ==
  /\ root' = r
  /\ pc' = "idle"
  /\ op' = NoOp
  /\ ret' = Returned("create", FALSE, NoName)
Fail(r, cleaned) ==
  /\ root' = IF cleaned /\ op.tmp \in DOMAIN r THEN Remove(r, op.tmp) ELSE r
  /\ pc' = "idle"
  /\ op' = NoOp
  /\ ret' = Returned("create", FALSE, NoName)

\* what copytree visits in the save directory: every file whose names pass
\* the ignore patterns, and the nested backup root when its name passes
ToCopy ==
  {p \in DOMAIN save : ~Ignored(p)}
    \cup (IF Nested /\ ~IgnoredName(cfg.loc) THEN {NestedPath(cfg.loc)} ELSE {})

\* tempfile.mkdtemp(prefix=".backup_<ts>.")
Mkdtemp(r, t) ==
  Stage(t, CHOOSE s \in 1..MaxSfx :
             /\ Stage(t, s) \notin DOMAIN r
             /\ \A s2 \in 1..(s - 1) : Stage(t, s2) \in DOMAIN r)

\* timestamp, file count, mkdtemp
CreateBegin(t, d, made) ==
  /\ pc = "idle"
  /\ nops < MaxOps
  /\ nops' = nops + 1
  /\ LET file_count ==
           WalkCount(save) + (IF Nested THEN RootCount(root, DOMAIN root) ELSE 0)
     IN IF file_count = 0 \/ ~rootExists \/ ~made
          THEN \* "No files found", or mkdtemp raises
               /\ Faults(B(file_count > 0 /\ rootExists))
               /\ ret' = Returned("create", FALSE, NoName)
               /\ hist' = NotPlain(Erred(Began(hist), file_count > 0))
               /\ UNCHANGED <<root, pc, op>>
          ELSE /\ \E s \in 1..MaxSfx : Stage(t, s) \notin DOMAIN root
               /\ Faults(0)
               /\ root' = Add(root, Mkdtemp(root, t), NewDir(ToCopy))
               /\ pc' = "copy"
               /\ hist' = [Began(hist) EXCEPT !.made = NoMade]
               /\ op' = [NoOp EXCEPT !.kind = "create", !.name = Final(t),
                                     !.tmp = Mkdtemp(root, t), !.desc = d,
                                     !.method = "atomic", !.todo = ToCopy,
                                     !.digest = compute_directory_sha256(save),
                                     !.total = file_count,
                                     !.listed = Listed(root)]
               /\ UNCHANGED ret
  /\ UNCHANGED <<dg, ui, sc, m2, cfg, save, rootExists, ncrashes, nedits>>

\* _safe_copy when its last attempt has failed: with skip_locked_files it
\* returns without a copy, else it raises the last error
SafeCopyNeverRaises(copied) == FALSE
SafeCopyRaises(copied) == ~copied /\ ~cfg.skip_locked_files

\* copytree: one entry, in the order scandir gives; an error of one entry is
\* collected and the copy goes on with the rest
CopyStep(p, copied) ==
  /\ pc = "copy"
  /\ p \in op.todo
  /\ IF p = NestedPath(cfg.loc)
       THEN \* the staging directory lies in the tree being copied: the copy
            \* of the backup root descends into itself until the path is too
            \* long, having copied the files it met on the way
            /\ Faults(0)
            /\ root' = IF RootCount(root, DOMAIN root) > 0
                         THEN [root EXCEPT ![op.tmp].files = Put(@, p, Data(<<>>))]
                         ELSE root
            /\ op' = [op EXCEPT !.todo = @ \ {p}, !.failed = TRUE,
                                !.progress = CopyWithProgress(@, RootCount(root, DOMAIN root))]
            /\ hist' = hist
       ELSE LET \* the staging directory may have been taken away by another
                \* manager: the makedirs of a subdirectory makes it anew, a
                \* file of the top level cannot be copied
                staged == IF op.tmp \in DOMAIN root \/ Len(p) = 1
                            THEN root ELSE Add(root, op.tmp, NewDir(ToCopy))
                done == copied /\ op.tmp \in DOMAIN staged
            IN
            /\ Faults(B(~copied))
            /\ hist' = Erred(hist, ~done)
            /\ IF done
                 THEN /\ root' = WriteTo(staged, op.tmp, p, save[p])
                      /\ op' = [op EXCEPT !.todo = @ \ {p},
                                          !.progress = CopyWithProgress(@, 1)]
                 ELSE IF ~SafeCopyRaises(done)
                   THEN \* _safe_copy returns without copying
                        /\ root' = IF op.tmp \in DOMAIN staged
                                     THEN [staged EXCEPT ![op.tmp].pending = @ \ {p}]
                                     ELSE staged
                        /\ op' = [op EXCEPT !.todo = @ \ {p}, !.skipped = @ \cup {p},
                                            !.progress = CopyWithProgress(@, 1)]
                   ELSE /\ root' = staged
                        /\ op' = [op EXCEPT !.todo = @ \ {p}, !.failed = TRUE,
                                            !.refused = @ \cup {p},
                                            !.progress = CopyWithProgress(@, 1)]
  /\ UNCHANGED <<dg, ui, sc, m2, cfg, save, rootExists, pc, ret, nops, ncrashes, nedits>>

\* copytree returns or raises Error; the description is written
CopyEnd(written, cleaned) ==
  /\ pc = "copy"
  /\ op.todo = {}
  /\ IF op.failed \/ op.tmp \notin DOMAIN root \/ (op.desc > 0 /\ ~written)
       THEN \* copytree raises what it collected (its copystat fails on a
            \* staging directory that is gone), or the description fails
            /\ op.tmp \notin DOMAIN root => cleaned
            /\ Faults(B(~op.failed /\ op.tmp \in DOMAIN root) + B(~cleaned))
            /\ Fail(root, cleaned)
            /\ hist' = Failed(ErredAt(hist, ~op.failed, "desc"), FALSE, cleaned)
       ELSE /\ Faults(0)
            /\ root' = IF op.desc > 0
                         THEN WriteTo(root, op.tmp, DescPath, TextFile(op.desc))
                         ELSE root
            /\ pc' = "publish"
            /\ UNCHANGED <<op, ret, hist>>
  /\ UNCHANGED <<dg, ui, sc, m2, cfg, save, rootExists, nops, ncrashes, nedits>>

\* shutil.move after EXDEV: os.rename fails again and copytree makes the
\* final directory and fills it file by file from the staging directory
MoveBegin(r, src, dst) ==
  Add(r, dst, NewDir(DOMAIN r[src].files \cup r[src].pending))

\* the publish: a colliding final directory is removed, then os.replace;
\* on EXDEV shutil.move, on another error the call fails
Publish(outcome, removed, cleaned) ==
  /\ pc = "publish"
  /\ IF op.name \in DOMAIN root /\ ~removed
       THEN /\ Faults(1 + B(~cleaned))
            /\ Fail(root, cleaned)
            /\ hist' = Failed(hist, TRUE, cleaned)
       ELSE LET r == IF op.name \in DOMAIN root THEN Remove(root, op.name) ELSE root
            IN CASE op.tmp \notin DOMAIN root ->
                      \* the staging directory is gone: os.replace raises
                      /\ outcome = "error" /\ cleaned
                      /\ Faults(0)
                      /\ Fail(r, cleaned)
                      /\ hist' = Failed(hist, TRUE, cleaned)
                 [] op.tmp \in DOMAIN root /\ outcome = "ok" ->
                      /\ Faults(0)
                      /\ root' = Rename(r, op.tmp, op.name)
                      /\ pc' = "meta"
                      /\ op' = [op EXCEPT !.rename = "ok"]
                      /\ UNCHANGED <<ret, hist>>
                 [] op.tmp \in DOMAIN root /\ outcome = "EXDEV" ->
                      /\ Faults(1)
                      /\ root' = MoveBegin(r, op.tmp, op.name)
                      /\ pc' = "move"
                      /\ op' = [op EXCEPT !.method = "copied", !.rename = "EXDEV",
                                          !.moving = DOMAIN r[op.tmp].files]
                      /\ UNCHANGED <<ret, hist>>
                 [] OTHER ->
                      /\ Faults(1 + B(~cleaned))
                      /\ Fail(r, cleaned)
                      /\ hist' = Failed(hist, TRUE, cleaned)
  /\ UNCHANGED <<dg, ui, sc, m2, cfg, save, rootExists, nops, ncrashes, nedits>>

\* shutil.move's copytree: one file; an error is collected, the copy goes on
MoveStep(p, copied) ==
  /\ pc = "move"
  /\ p \in op.moving
  /\ Faults(B(~copied))
  /\ root' = IF copied THEN WriteTo(root, op.name, p, root[op.tmp].files[p]) ELSE root
  /\ op' = [op EXCEPT !.moving = @ \ {p}, !.failed = @ \/ ~copied]
  /\ hist' = Erred(hist, ~copied)
  /\ UNCHANGED <<dg, ui, sc, m2, cfg, save, rootExists, pc, ret, nops, ncrashes, nedits>>

\* the metadata of a published directory
MakeMetaAtomic(f, method, d, recovered) ==
  [present |-> TRUE, checksum |-> compute_directory_sha256(f),
   files |-> WalkCount(f), size_bytes |-> get_directory_size(f),
   move_method |-> "atomic", description |-> d, recovered |-> recovered]
MakeMetaUnmarked(f, method, d, recovered) ==
  [present |-> TRUE, checksum |-> compute_directory_sha256(f),
   files |-> WalkCount(f), size_bytes |-> get_directory_size(f),
   move_method |-> method, description |-> d, recovered |-> FALSE]
MakeMeta(f, method, d, recovered) ==
  [present |-> TRUE, checksum |-> compute_directory_sha256(f),
   files |-> WalkCount(f), size_bytes |-> get_directory_size(f),
   move_method |-> method, description |-> d, recovered |-> recovered]

\* the metadata sidecar written into entry n (or the write fails)
WithMetaOrUndo(r, n, method, d, recovered, written) ==
  IF written
    THEN WriteTo(r, n, MetaPath, MetaFile(MakeMeta(r[n].files, method, d, recovered)))
    ELSE Remove(r, n)
WithMeta(r, n, method, d, recovered, written) ==
  IF written
    THEN WriteTo(r, n, MetaPath, MetaFile(MakeMeta(r[n].files, method, d, recovered)))
    ELSE r

\* shutil.move ends: copytree raises what it collected, else the staging
\* directory is removed.  In create_backup an error is re-raised; in the
\* recovery the staging directory is removed and the entry is given up
MoveEnd(removed, again, written) ==
  /\ pc = "move"
  /\ op.moving = {}
  /\ IF op.kind = "create"
       THEN IF op.failed \/ ~removed
              THEN /\ Faults(B(~op.failed) + B(~again))
                   /\ Fail(root, again)
                   /\ hist' = Failed(hist, TRUE, again)
              ELSE /\ Faults(0)
                   /\ root' = Remove(root, op.tmp)
                   /\ pc' = "meta"
                   /\ UNCHANGED <<op, ret, hist>>
       ELSE /\ IF op.failed \/ ~removed
                 THEN /\ Faults(B(~op.failed) + B(~again))
                      /\ root' = IF again THEN Remove(root, op.tmp) ELSE root
                      /\ hist' = [Erred(hist, TRUE) EXCEPT !.faulty = TRUE]
                 ELSE /\ Faults(B(~written))
                      /\ root' = WithMeta(Remove(root, op.tmp), op.name,
                                          "recovered_copied", 0, TRUE, written)
                      /\ hist' = [Erred(hist, ~written) EXCEPT !.faulty = @ \/ ~written]
            /\ pc' = "recover"
            /\ op' = [op EXCEPT !.failed = FALSE, !.name = NoName, !.tmp = NoName,
                                !.changed = @ \/ root' # root]
            /\ UNCHANGED ret
  /\ UNCHANGED <<dg, ui, sc, m2, cfg, save, rootExists, nops, ncrashes, nedits>>

\* checksum, size and count of the published directory, the metadata file,
\* then _cleanup_old_backups lists the backups
WriteMeta(written) ==
  /\ pc = "meta"
  /\ Faults(B(~written))
  /\ root' = WithMeta(root, op.name, op.method, op.desc, FALSE, written)
  /\ pc' = "prune"
  /\ op' = [op EXCEPT !.queue = Excess(GetBackupList(root'), cfg.max_backups),
                      !.before = GetBackupList(root'), !.keep = cfg.max_backups,
                      !.meta = IF written THEN "written" ELSE "failed"]
  /\ hist' = [hist EXCEPT !.errors = @ \/ ~written]
  /\ UNCHANGED <<dg, ui, sc, m2, cfg, save, rootExists, ret, nops, ncrashes, nedits>>

\* what is left to delete after a deletion failed: the except clause is
\* inside the for loop
StopAfterFailure(q) == <<>>
AfterFailure(q) == Tail(q)

\* one excess backup: _safe_rmtree, a failure is logged and the loop goes on
PruneStep(deleted) ==
  /\ pc = "prune"
  /\ op.queue # <<>>
  /\ Faults(B(~deleted))
  /\ root' = IF deleted /\ Head(op.queue) \in DOMAIN root
               THEN Remove(root, Head(op.queue)) ELSE root
  /\ op' = [op EXCEPT !.queue = IF deleted THEN Tail(@) ELSE AfterFailure(@),
                      !.undeleted = @ \/ ~deleted,
                      !.stuck = IF deleted THEN @ ELSE @ \cup {Head(op.queue)}]
  /\ hist' = [Erred(hist, ~deleted) EXCEPT !.unpruned = @ \/ ~deleted]
  /\ UNCHANGED <<dg, ui, sc, m2, cfg, save, rootExists, pc, ret, nops, ncrashes, nedits>>

\* the loop is over: create_backup returns backup_path, cleanup_backups returns
PruneEnd ==
  /\ pc = "prune"
  /\ op.queue = <<>>
  /\ pc' = "idle"
  /\ op' = NoOp
  /\ IF op.kind = "create"
       THEN /\ ret' = Returned("create", TRUE, op.name)
            /\ hist' = [hist EXCEPT
                          !.creates = IF hist.plain THEN Append(@, op.name.ts) ELSE <<>>,
                          !.made = [name |-> op.name, digest |-> op.digest]]
       ELSE /\ ret' = Returned("cleanup", TRUE, NoName)
            /\ hist' = hist
  /\ UNCHANGED <<dg, ui, sc, m2, cfg, save, root, rootExists, nops, ncrashes, nfaults, nedits>>

\* cleanup_backups(keep_count), the prompt answered
CleanupBackups(keep, confirm) ==
  /\ pc = "idle"
  /\ nops < MaxOps
  /\ nops' = nops + 1
  /\ hist' = NotPlain(Began(hist))
  /\ IF Len(List) <= keep \/ ~confirm
       THEN /\ ret' = Returned("cleanup", TRUE, NoName)
            /\ UNCHANGED <<pc, op>>
       ELSE /\ pc' = "prune"
            /\ op' = [NoOp EXCEPT !.kind = "cleanup", !.queue = Excess(List, keep),
                                  !.before = List, !.keep = keep]
            /\ UNCHANGED ret
  /\ UNCHANGED <<dg, ui, sc, m2, cfg, save, root, rootExists, ncrashes, nfaults, nedits>>

\* ------------------------------------------------------------- crash, construction
\* the process stops in the middle of an operation
Crash ==
  /\ pc \notin {"idle", "down"}
  /\ ncrashes < MaxCrashes
  /\ ncrashes' = ncrashes + 1
  /\ pc' = "down"
  /\ op' = NoOp
  /\ hist' = [NotPlain(hist) EXCEPT
                !.crashed = TRUE,
                !.interrupted =
                  IF /\ pc = "publish"
                     /\ WalkCount(root[op.tmp].files) > 0
                     /\ op.name \notin DOMAIN root
                    THEN op.tmp ELSE NoName,
                !.staged =
                  IF /\ pc = "publish"
                     /\ WalkCount(root[op.tmp].files) > 0
                     /\ op.name \notin DOMAIN root
                    THEN root[op.tmp].files ELSE EmptyFiles]
  /\ UNCHANGED <<dg, ui, sc, m2, cfg, save, root, rootExists, ret, nops, nfaults, nedits>>

\* shutil.rmtree of _safe_rmtree removes a directory entry by entry and the
\* directory itself last.  A process that stops after the first unlink leaves
\* the directory under its own name with the file p gone
Torn(r, n, p) == [r EXCEPT ![n].files = Drop(@, {p})]

TornHist(h, n) ==
  [NotPlain(h) EXCEPT !.crashed = TRUE, !.interrupted = NoName, !.staged = EmptyFiles,
                      !.torn = n, !.whole = root[n].files]

\* the process stops inside the rmtree of _cleanup_old_backups
CrashPruning(p) ==
  /\ pc = "prune"
  /\ op.queue # <<>>
  /\ Head(op.queue) \in DOMAIN root
  /\ p \in DOMAIN root[Head(op.queue)].files
  /\ WalkCount(root[Head(op.queue)].files) > 1
  /\ ncrashes < MaxCrashes
  /\ ncrashes' = ncrashes + 1
  /\ pc' = "down"
  /\ op' = NoOp
  /\ root' = Torn(root, Head(op.queue), p)
  /\ hist' = TornHist(hist, Head(op.queue))
  /\ UNCHANGED <<dg, ui, sc, m2, cfg, save, rootExists, ret, nops, nfaults, nedits>>

\* the process stops inside the rmtree of delete_backup
CrashDeleting(i, p) ==
  /\ pc = "idle"
  /\ nops < MaxOps
  /\ i \in 1..Len(List)
  /\ p \in DOMAIN root[List[i]].files
  /\ WalkCount(root[List[i]].files) > 1
  /\ ncrashes < MaxCrashes
  /\ ncrashes' = ncrashes + 1
  /\ nops' = nops + 1
  /\ pc' = "down"
  /\ op' = NoOp
  /\ root' = Torn(root, List[i], p)
  /\ hist' = [TornHist(Began(hist), List[i]) EXCEPT !.choice = i]
  /\ UNCHANGED <<dg, ui, sc, m2, cfg, save, rootExists, ret, nfaults, nedits>>

\* __init__ of a manager on the same directories: mkdir, then
\* _recover_or_cleanup_tmp_dirs lists the backup root.  Of the listed entries
\* the loop passes over those whose name does not start with .backup_
Construct ==
  /\ pc \in {"idle", "down"}
  /\ pc = "idle" => nops < MaxOps
  /\ nops' = nops + B(pc = "idle")
  /\ rootExists' = TRUE
  /\ pc' = "recover"
  /\ op' = [NoOp EXCEPT !.kind = "recover", !.todo = {n \in DOMAIN root : IsTmpName(n)},
                        !.before = List,
                        !.found = {n \in DOMAIN root :
                                     IsTmpName(n) /\ WalkCount(root[n].files) > 0}]
  /\ hist' = [NotPlain(Began(hist)) EXCEPT
                !.second = (pc = "idle" /\ ret.op = "construct"),
                !.firstFaulty = (pc = "idle" /\ ret.op = "construct" /\ hist.faulty),
                !.faulty = FALSE,
                !.twins = \E n \in DOMAIN root :
                            /\ n # hist.interrupted
                            /\ IsTmpName(n)
                            /\ FinalBase(n) = FinalBase(hist.interrupted)]
  /\ UNCHANGED <<dg, ui, sc, m2, cfg, save, root, ret, ncrashes, nfaults, nedits>>

\* the entries the scan has still to look at when entry e is done: an error
\* of a call (erred) is caught inside the for loop, which takes the next entry
RestNone(todo, e, erred) == IF erred THEN {} ELSE todo \ {e}
Rest(todo, e, erred) == todo \ {e}

\* one leftover temp dir
RecoverStep(e, outcome, removed, written) ==
  /\ pc = "recover"
  /\ e \in op.todo
  /\ LET rest == [op EXCEPT !.todo = Rest(@, e, nfaults' > nfaults),
                            !.changed = @ \/ root' # root]
         gone == IF removed THEN Remove(root, e) ELSE root
     IN IF WalkCount(root[e].files) = 0 \/ FinalBase(e) \in DOMAIN root
          THEN \* no file in it, or its final directory exists: removed
               /\ Faults(B(~removed))
               /\ root' = gone
               /\ op' = rest
               /\ pc' = "recover"
               /\ hist' = [Erred(hist, ~removed) EXCEPT !.faulty = @ \/ ~removed]
          ELSE CASE outcome = "ok" ->
                      /\ Faults(B(~written))
                      /\ root' = WithMeta(Rename(root, e, FinalBase(e)), FinalBase(e),
                                          "recovered_atomic", 0, TRUE, written)
                      /\ op' = rest
                      /\ pc' = "recover"
                      /\ hist' = [Erred(hist, ~written) EXCEPT !.faulty = @ \/ ~written]
                 [] outcome = "EXDEV" ->
                      /\ Faults(1)
                      /\ root' = MoveBegin(root, e, FinalBase(e))
                      /\ op' = [rest EXCEPT !.name = FinalBase(e), !.tmp = e,
                                            !.moving = DOMAIN root[e].files]
                      /\ pc' = "move"
                      /\ hist' = hist
                 [] OTHER -> \* the rename fails: the temp dir is removed
                      /\ Faults(1 + B(~removed))
                      /\ root' = gone
                      /\ op' = rest
                      /\ pc' = "recover"
                      /\ hist' = [Erred(hist, TRUE) EXCEPT !.faulty = TRUE]
  /\ UNCHANGED <<dg, ui, sc, m2, cfg, save, rootExists, ret, nops, ncrashes, nedits>>

RecoverEnd ==
  /\ pc = "recover"
  /\ op.todo = {}
  /\ pc' = "idle"
  /\ op' = NoOp
  /\ ret' = Returned("construct", TRUE, NoName)
  /\ hist' = [hist EXCEPT !.interrupted = NoName, !.staged = EmptyFiles,
                          !.twins = FALSE, !.worked = op.changed]
  /\ UNCHANGED <<dg, ui, sc, m2, cfg, save, root, rootExists, nops, ncrashes, nfaults, nedits>>

\* ------------------------------------------------------------- restore_backup
\* the entries of a directory: the first names of its paths
TopNames(f) == {p[1] : p \in DOMAIN f}
Under(f, x) == {p \in DOMAIN f : p[1] = x}

\* save_dir.iterdir()
SaveEntries == TopNames(save) \cup (IF Nested THEN {cfg.loc} ELSE {})

\* item.name != "backups": what the delete phase leaves alone
Kept(x) == x = "backups"

RestoreFail ==
  /\ pc' = "idle"
  /\ op' = NoOp
  /\ ret' = Returned("restore", FALSE, NoName)

\* backups[backup_choice - 1]
ChosenOlder(l, i) == l[IF i < Len(l) THEN i + 1 ELSE i]
Chosen(l, i) == l[i]

RestoreBegin(i) ==
  /\ pc = "idle"
  /\ nops < MaxOps
  /\ nops' = nops + 1
  /\ IF List = <<>> \/ i < 1 \/ i > Len(List)
       THEN RestoreFail /\ hist' = [NotPlain(Began(hist)) EXCEPT !.choice = i]
       ELSE /\ pc' = "rdelete"
            /\ op' = [NoOp EXCEPT !.kind = "restore", !.name = Chosen(List, i),
                                  !.items = SaveEntries]
            /\ hist' = [Began(hist) EXCEPT !.plain = FALSE, !.creates = <<>>,
                                            !.choice = i]
            /\ UNCHANGED ret
  /\ UNCHANGED <<dg, ui, sc, m2, cfg, save, root, rootExists, ncrashes, nfaults, nedits>>

\* one entry of the save directory: rmtree or unlink; on PermissionError the
\* shell command, whose exit status is not looked at (check=False)
RDeleteStep(x, outcome) ==
  /\ pc = "rdelete"
  /\ x \in op.items
  /\ IF Kept(x)
       THEN /\ Faults(0)
            /\ op' = [op EXCEPT !.items = @ \ {x}]
            /\ UNCHANGED <<save, root, rootExists, pc, ret, hist>>
       ELSE CASE outcome \in {"removed", "shell_removed"} ->
                   /\ Faults(B(outcome # "removed"))
                   /\ save' = Drop(save, Under(save, x))
                   /\ root' = IF Nested /\ x = cfg.loc THEN NoRoot ELSE root
                   /\ rootExists' = (rootExists /\ ~(Nested /\ x = cfg.loc))
                   /\ op' = [op EXCEPT !.items = @ \ {x},
                                       !.changed = @ \/ (Nested /\ x = cfg.loc)]
                   /\ hist' = Erred(hist, outcome # "removed")
                   /\ UNCHANGED <<pc, ret>>
              [] outcome = "shell_left" ->
                   \* PermissionError, and the command removes nothing
                   /\ Faults(1)
                   /\ op' = [op EXCEPT !.items = @ \ {x}, !.left = TRUE]
                   /\ hist' = Erred(hist, TRUE)
                   /\ UNCHANGED <<save, root, rootExists, pc, ret>>
              [] OTHER ->
                   \* the command cannot be run, or the removal raises another
                   \* error than PermissionError: return False
                   /\ Faults(1)
                   /\ RestoreFail
                   /\ hist' = NotPlain(ErredAt(hist, TRUE, "rdelete_raised"))
                   /\ UNCHANGED <<save, root, rootExists>>
  /\ UNCHANGED <<dg, ui, sc, m2, cfg, nops, ncrashes, nedits>>

\* the delete loop is over; backup_path_obj.iterdir()
RDeleteEnd ==
  /\ pc = "rdelete"
  /\ op.items = {}
  /\ IF op.name \in DOMAIN root
       THEN /\ pc' = "rcopy"
            /\ op' = [op EXCEPT !.items = TopNames(root[op.name].files),
                                !.total = WalkCount(root[op.name].files)]
            /\ UNCHANGED <<ret, hist>>
       ELSE RestoreFail /\ hist' = NotPlain(hist)
  /\ UNCHANGED <<dg, ui, sc, m2, cfg, save, root, rootExists, nops, ncrashes, nfaults, nedits>>

\* one entry of the backup: the description is passed over, a directory goes
\* through copytree (which refuses an existing destination), a file through copy2
RCopyStep(x, copied) ==
  /\ pc = "rcopy"
  /\ x \in op.items
  /\ LET f == root[op.name].files
         isdir == \E p \in Under(f, x) : Len(p) > 1
         files_restored == IF op.progress = <<>> THEN 0 ELSE op.progress[Len(op.progress)]
     IN IF x = DescName
          THEN /\ Faults(0)
               /\ op' = [op EXCEPT !.items = @ \ {x}]
               /\ UNCHANGED <<save, pc, ret, hist>>
          ELSE IF ~copied \/ (isdir /\ x \in SaveEntries)
               THEN /\ Faults(B(~(isdir /\ x \in SaveEntries)))
                    /\ RestoreFail
                    /\ hist' = NotPlain(Erred(hist, TRUE))
                    /\ save' = save
               ELSE /\ Faults(0)
                    /\ save' = [p \in DOMAIN save \cup Under(f, x) |->
                                  IF p \in Under(f, x) THEN f[p] ELSE save[p]]
                    /\ op' = [op EXCEPT !.items = @ \ {x}, !.restored = @ \cup {x},
                                        !.progress =
                                          ShowProgress(@, files_restored +
                                            (IF isdir THEN Cardinality(Under(f, x)) ELSE 1))]
                    /\ UNCHANGED <<pc, ret, hist>>
  /\ UNCHANGED <<dg, ui, sc, m2, cfg, root, rootExists, nops, ncrashes, nedits>>

RCopyEnd ==
  /\ pc = "rcopy"
  /\ op.items = {}
  /\ pc' = "idle"
  /\ op' = NoOp
  /\ ret' = Returned("restore", TRUE, op.name)
  /\ hist' = NotPlain(hist)
  /\ UNCHANGED <<dg, ui, sc, m2, cfg, save, root, rootExists, nops, ncrashes, nfaults, nedits>>

\* ------------------------------------------------------------- delete_backup
DeleteBackup(i, deleted) ==
  /\ pc = "idle"
  /\ nops < MaxOps
  /\ nops' = nops + 1
  /\ IF List = <<>> \/ i < 1 \/ i > Len(List)
       THEN /\ Faults(0)
            /\ ret' = Returned("delete", FALSE, NoName)
            /\ root' = root
            /\ hist' = [NotPlain(Began(hist)) EXCEPT !.choice = i]
       ELSE /\ Faults(B(~deleted))
            /\ ret' = Returned("delete", deleted, Chosen(List, i))
            /\ root' = IF deleted THEN Remove(root, Chosen(List, i)) ELSE root
            /\ hist' = [NotPlain(Erred(Began(hist), ~deleted)) EXCEPT !.choice = i]
  /\ UNCHANGED <<dg, ui, sc, m2, cfg, save, rootExists, pc, op, ncrashes, nedits>>

\* ------------------------------------------------------------- the user
\* the game or the user removes a file of the save directory or writes a new one
EditSave(p, c) ==
  /\ pc = "idle"
  /\ nedits < MaxEdits
  /\ nedits' = nedits + 1
  /\ save' = IF p \in DOMAIN save THEN Drop(save, {p}) ELSE Put(save, p, c)
  /\ UNCHANGED <<dg, ui, sc, m2, cfg, root, rootExists, pc, op, ret, hist, nops, ncrashes, nfaults>>

\* ------------------------------------------------------------- specification
\* the save directory a manager is constructed on: two files, or none yet
NoDigest ==
  [a |-> EmptyFiles, b |-> EmptyFiles, ea |-> <<>>, eb |-> <<>>,
   da |-> <<>>, db |-> <<>>, done |-> FALSE]

\* the UI before a game is selected
\* list is what _get_backup_list gives on the selected game's backup root
\* (names by their timestamps, newest first) and clock the newest name given;
\* table and cursor are the DataTable's rows and cursor_row + 1; named is the
\* backup the open dialog names; acted tells on which backup the last
\* restore_backup / delete_backup of the UI acted (0: on none)
NoThread == [kind |-> "none", at |-> "none", row |-> 0, named |-> 0, ok |-> FALSE]
NoActed == [kind |-> "none", named |-> 0, on |-> 0]
NoUi ==
  [manager |-> FALSE, dialog |-> "none", main |-> "none", notified |-> "none",
   threads |-> [i \in 1..MaxThreads |-> NoThread],
   list |-> <<>>, clock |-> 0, table |-> <<>>, cursor |-> 1, named |-> 0,
   refresh |-> FALSE, acted |-> NoActed]

FullSave ==
  [p \in {<<"a.txt">>, <<"b", "c.txt">>} |->
     IF p = <<"a.txt">> THEN Data(<<1, 2>>) ELSE Data(<<>>)]
SaveDirs == {FullSave, EmptyFiles}

Init ==
  /\ cfg \in [max_backups : 1..MaxKeep, skip_locked_files : BOOLEAN, loc : Locations]
  /\ save \in SaveDirs
  /\ root = NoRoot
  /\ rootExists = TRUE
  /\ pc = "idle"
  /\ op = NoOp
  /\ ret = Returned("construct", TRUE, NoName)
  /\ hist = [crashed |-> FALSE, errors |-> FALSE, plain |-> TRUE, creates |-> <<>>,
             unpruned |-> FALSE, made |-> NoMade,
             second |-> FALSE, faulty |-> FALSE, firstFaulty |-> FALSE,
             worked |-> FALSE, cleanup |-> "none", choice |-> 0, io |-> {},
             interrupted |-> NoName, staged |-> EmptyFiles, twins |-> FALSE,
             torn |-> NoName, whole |-> EmptyFiles]
  /\ nops = 0
  /\ ncrashes = 0
  /\ nfaults = 0
  /\ nedits = 0
  /\ dg = NoDigest
  /\ ui = NoUi
  /\ sc = NoCopy
  /\ m2 = NoScan

Outcomes == {"ok", "EXDEV", "error"}
Removals == {"removed", "shell_removed", "shell_left", "shell_raised", "raised"}
AllPaths ==
  UserPaths \cup WidePaths \cup {DescPath, MetaPath}
    \cup {NestedPath(l) : l \in Locations}
AllNames == {p[1] : p \in AllPaths}
AllEntries == {Final(t) : t \in Times} \cup {Stage(t, s) : t \in Times, s \in 1..MaxSfx}

Next ==
  \/ \E t \in Times, d \in 0..1, made \in BOOLEAN : CreateBegin(t, d, made)
  \/ \E p \in AllPaths, copied \in BOOLEAN : CopyStep(p, copied)
  \/ \E written \in BOOLEAN, cleaned \in BOOLEAN : CopyEnd(written, cleaned)
  \/ \E o \in Outcomes, removed \in BOOLEAN, cleaned \in BOOLEAN :
       Publish(o, removed, cleaned)
  \/ \E p \in AllPaths, copied \in BOOLEAN : MoveStep(p, copied)
  \/ \E removed \in BOOLEAN, again \in BOOLEAN, written \in BOOLEAN :
       MoveEnd(removed, again, written)
  \/ \E written \in BOOLEAN : WriteMeta(written)
  \/ \E deleted \in BOOLEAN : PruneStep(deleted)
  \/ PruneEnd
  \/ \E keep \in 0..MaxKeep, confirm \in BOOLEAN : CleanupBackups(keep, confirm)
  \/ Crash
  \/ \E p \in AllPaths : CrashPruning(p)
  \/ \E i \in 1..(MaxKeep + 1), p \in AllPaths : CrashDeleting(i, p)
  \/ Construct
  \/ \E e \in AllEntries, o \in Outcomes, removed \in BOOLEAN, written \in BOOLEAN :
       RecoverStep(e, o, removed, written)
  \/ RecoverEnd
  \/ \E i \in 0..(MaxKeep + 1) : RestoreBegin(i)
  \/ \E x \in AllNames, o \in Removals : RDeleteStep(x, o)
  \/ RDeleteEnd
  \/ \E x \in AllNames, copied \in BOOLEAN : RCopyStep(x, copied)
  \/ RCopyEnd
  \/ \E i \in 0..(MaxKeep + 1), deleted \in BOOLEAN : DeleteBackup(i, deleted)
  \/ \E p \in UserPaths, c \in DataContents : EditSave(p, c)

Spec == Init /\ [][Next]_vars

\* a manager constructed on a backup root that earlier create_backup calls have
\* filled: backup_1, made without a description, and backup_2, made with one,
\* both published by rename from the two-file save directory
Snapshot(f, d) ==
  LET g == IF d > 0 THEN Put(f, DescPath, TextFile(d)) ELSE f
  IN [files |-> Put(g, MetaPath, MetaFile(MakeMeta(g, "atomic", d, FALSE))),
      pending |-> {}]

StockedRoot ==
  [n \in {Final(1), Final(2)} |->
     IF n = Final(1) THEN Snapshot(FullSave, 0) ELSE Snapshot(FullSave, 1)]

InitStocked ==
  /\ cfg \in [max_backups : 1..MaxKeep, skip_locked_files : BOOLEAN,
              loc : {"outside", "backups"}]
  /\ save = FullSave
  /\ root = StockedRoot
  /\ rootExists = TRUE
  /\ pc = "idle"
  /\ op = NoOp
  /\ ret = Returned("construct", TRUE, NoName)
  /\ hist = [crashed |-> FALSE, errors |-> FALSE, plain |-> FALSE, creates |-> <<>>,
             unpruned |-> FALSE, made |-> NoMade,
             second |-> FALSE, faulty |-> FALSE, firstFaulty |-> FALSE,
             worked |-> FALSE, cleanup |-> "none", choice |-> 0, io |-> {},
             interrupted |-> NoName, staged |-> EmptyFiles, twins |-> FALSE,
             torn |-> NoName, whole |-> EmptyFiles]
  /\ nops = 0
  /\ ncrashes = 0
  /\ nfaults = 0
  /\ nedits = 0
  /\ dg = NoDigest
  /\ ui = NoUi
  /\ sc = NoCopy
  /\ m2 = NoScan

SpecStocked == InitStocked /\ [][Next]_vars

\* a backup root that holds three snapshots, the oldest made before the clock
\* readings of the behaviour, under a manager that keeps fewer
Earlier == Final(0 - 1)
CrowdedRoot ==
  [n \in {Earlier, Final(1), Final(2)} |->
     IF n = Final(2) THEN Snapshot(FullSave, 1) ELSE Snapshot(FullSave, 0)]

InitCrowded ==
  /\ cfg \in [max_backups : 1..MaxKeep, skip_locked_files : BOOLEAN, loc : {"outside"}]
  /\ save = FullSave
  /\ root = CrowdedRoot
  /\ rootExists = TRUE
  /\ pc = "idle"
  /\ op = NoOp
  /\ ret = Returned("construct", TRUE, NoName)
  /\ hist = [crashed |-> FALSE, errors |-> FALSE, plain |-> FALSE, creates |-> <<>>,
             unpruned |-> FALSE, made |-> NoMade,
             second |-> FALSE, faulty |-> FALSE, firstFaulty |-> FALSE,
             worked |-> FALSE, cleanup |-> "none", choice |-> 0, io |-> {},
             interrupted |-> NoName, staged |-> EmptyFiles, twins |-> FALSE,
             torn |-> NoName, whole |-> EmptyFiles]
  /\ nops = 0
  /\ ncrashes = 0
  /\ nfaults = 0
  /\ nedits = 0
  /\ dg = NoDigest
  /\ ui = NoUi
  /\ sc = NoCopy
  /\ m2 = NoScan

SpecCrowded == InitCrowded /\ [][Next]_vars

\* a save directory whose directory b holds two files and a file called
\* backups, and a backup root outside it with the snapshot a create_backup
\* made of it
WideSave ==
  [p \in {<<"b", "c.txt">>} \cup WidePaths |->
     IF p = <<"b", "c.txt">> THEN Data(<<>>) ELSE Data(<<1>>)]
WideRoot ==
  [n \in {Final(1)} |-> Snapshot(Drop(WideSave, {p \in DOMAIN WideSave : Ignored(p)}), 0)]

InitWide ==
  /\ cfg \in [max_backups : 1..MaxKeep, skip_locked_files : BOOLEAN, loc : {"outside"}]
  /\ save = WideSave
  /\ root = WideRoot
  /\ rootExists = TRUE
  /\ pc = "idle"
  /\ op = NoOp
  /\ ret = Returned("construct", TRUE, NoName)
  /\ hist = [crashed |-> FALSE, errors |-> FALSE, plain |-> FALSE, creates |-> <<>>,
             unpruned |-> FALSE, made |-> NoMade,
             second |-> FALSE, faulty |-> FALSE, firstFaulty |-> FALSE,
             worked |-> FALSE, cleanup |-> "none", choice |-> 0, io |-> {},
             interrupted |-> NoName, staged |-> EmptyFiles, twins |-> FALSE,
             torn |-> NoName, whole |-> EmptyFiles]
  /\ nops = 0
  /\ ncrashes = 0
  /\ nfaults = 0
  /\ nedits = 0
  /\ dg = NoDigest
  /\ ui = NoUi
  /\ sc = NoCopy
  /\ m2 = NoScan

SpecWide == InitWide /\ [][Next]_vars

\* ------------------------------------------------------------ a second manager
\* A second SaveBackupManager is made on the same backup root (the UI makes one
\* in initialize_backup_manager whenever a game is selected) while the first is
\* in create_backup, between its mkdtemp and its publish.  The scan of its
\* __init__ is followed entry by entry for as long as that create_backup is in
\* between; nothing tells the two managers of each other
InBetween == op.kind = "create" /\ pc \in {"copy", "publish"}

SecondOnly ==
  UNCHANGED <<dg, ui, sc, cfg, save, rootExists, pc, op, ret, hist, nops, ncrashes,
              nedits>>

\* __init__: mkdir(exist_ok=True), then backup_dir.iterdir()
SecondConstruct ==
  /\ InBetween
  /\ m2.at = "none"
  /\ m2' = [at |-> "scan", todo |-> {n \in DOMAIN root : IsTmpName(n)}]
  /\ UNCHANGED <<root, nfaults>>
  /\ SecondOnly

\* one entry of the scan, as in RecoverStep; an entry that is no longer there
\* is passed over, and shutil.move after EXDEV is taken as one step
SecondRecoverStep(e, outcome, removed, written) ==
  /\ InBetween
  /\ m2.at = "scan"
  /\ e \in m2.todo
  /\ m2' = [m2 EXCEPT !.todo = @ \ {e}]
  /\ LET gone == IF removed THEN Remove(root, e) ELSE root
     IN IF e \notin DOMAIN root
          THEN outcome = "ok" /\ removed /\ written /\ Faults(0) /\ root' = root
          ELSE IF WalkCount(root[e].files) = 0 \/ FinalBase(e) \in DOMAIN root
            THEN /\ outcome = "ok" /\ written
                 /\ Faults(B(~removed))
                 /\ root' = gone
            ELSE CASE outcome = "ok" ->
                        /\ removed
                        /\ Faults(B(~written))
                        /\ root' = WithMeta(Rename(root, e, FinalBase(e)), FinalBase(e),
                                            "recovered_atomic", 0, TRUE, written)
                   [] outcome = "EXDEV" ->
                        /\ removed
                        /\ Faults(1 + B(~written))
                        /\ root' = WithMeta(Rename(root, e, FinalBase(e)), FinalBase(e),
                                            "recovered_copied", 0, TRUE, written)
                   [] OTHER ->
                        /\ written
                        /\ Faults(1 + B(~removed))
                        /\ root' = gone
  /\ SecondOnly

\* the scan is over: the second manager is made
SecondRecoverEnd ==
  /\ m2.at = "scan"
  /\ m2.todo = {}
  /\ m2' = [m2 EXCEPT !.at = "made"]
  /\ UNCHANGED <<root, nfaults>>
  /\ SecondOnly

TwoRoot == [n \in {Final(1)} |-> Snapshot(FullSave, 0)]

InitTwo ==
  /\ cfg \in [max_backups : 1..MaxKeep, skip_locked_files : BOOLEAN, loc : {"outside"}]
  /\ save = FullSave
  /\ root = TwoRoot
  /\ rootExists = TRUE
  /\ pc = "idle"
  /\ op = NoOp
  /\ ret = Returned("construct", TRUE, NoName)
  /\ hist = [crashed |-> FALSE, errors |-> FALSE, plain |-> FALSE, creates |-> <<>>,
             unpruned |-> FALSE, made |-> NoMade,
             second |-> FALSE, faulty |-> FALSE, firstFaulty |-> FALSE,
             worked |-> FALSE, cleanup |-> "none", choice |-> 0, io |-> {},
             interrupted |-> NoName, staged |-> EmptyFiles, twins |-> FALSE,
             torn |-> NoName, whole |-> EmptyFiles]
  /\ nops = 0
  /\ ncrashes = 0
  /\ nfaults = 0
  /\ nedits = 0
  /\ dg = NoDigest
  /\ ui = NoUi
  /\ sc = NoCopy
  /\ m2 = NoScan

NextTwo ==
  \/ \E t \in Times, d \in 0..1, made \in BOOLEAN : CreateBegin(t, d, made)
  \/ \E p \in AllPaths, copied \in BOOLEAN : CopyStep(p, copied)
  \/ \E written \in BOOLEAN, cleaned \in BOOLEAN : CopyEnd(written, cleaned)
  \/ \E o \in Outcomes, removed \in BOOLEAN, cleaned \in BOOLEAN :
       Publish(o, removed, cleaned)
  \/ \E p \in AllPaths, copied \in BOOLEAN : MoveStep(p, copied)
  \/ \E removed \in BOOLEAN, again \in BOOLEAN, written \in BOOLEAN :
       MoveEnd(removed, again, written)
  \/ \E written \in BOOLEAN : WriteMeta(written)
  \/ \E deleted \in BOOLEAN : PruneStep(deleted)
  \/ PruneEnd
  \/ SecondConstruct
  \/ \E e \in AllEntries, o \in Outcomes, removed \in BOOLEAN, written \in BOOLEAN :
       SecondRecoverStep(e, o, removed, written)
  \/ SecondRecoverEnd

SpecTwo == InitTwo /\ [][NextTwo]_vars

\* a backup root as stopped processes left it, before a manager is constructed
\* on it: a snapshot backup_2 and three temp dirs, one full whose final name
\* backup_1 is free, one empty, one full whose final name backup_2 is taken
Staged(f) == [files |-> f, pending |-> {}]
LeftoverRoot ==
  [n \in {Final(2), Stage(1, 1), Stage(1, 2), Stage(2, 1)} |->
     CASE n = Final(2) -> Snapshot(FullSave, 0)
       [] n = Stage(1, 2) -> Staged(EmptyFiles)
       [] OTHER -> Staged(FullSave)]

InitLeftovers ==
  /\ cfg \in [max_backups : 1..MaxKeep, skip_locked_files : BOOLEAN, loc : {"outside"}]
  /\ save = FullSave
  /\ root = LeftoverRoot
  /\ rootExists = TRUE
  /\ pc = "down"
  /\ op = NoOp
  /\ ret = Returned("construct", TRUE, NoName)
  /\ hist = [crashed |-> TRUE, errors |-> FALSE, plain |-> FALSE, creates |-> <<>>,
             unpruned |-> FALSE, made |-> NoMade,
             second |-> FALSE, faulty |-> FALSE, firstFaulty |-> FALSE,
             worked |-> FALSE, cleanup |-> "none", choice |-> 0, io |-> {},
             interrupted |-> NoName, staged |-> EmptyFiles, twins |-> FALSE,
             torn |-> NoName, whole |-> EmptyFiles]
  /\ nops = 0
  /\ ncrashes = 0
  /\ nfaults = 0
  /\ nedits = 0
  /\ dg = NoDigest
  /\ ui = NoUi
  /\ sc = NoCopy
  /\ m2 = NoScan

SpecLeftovers == InitLeftovers /\ [][Next]_vars

\* ------------------------------------------------------------- the digest alone
\* compute_directory_sha256 applied to two directories, each enumerated by the
\* file system in an order of its own
DigestPaths == {<<"a">>, <<"a1">>, <<"b", "a">>, <<"b", "c.txt">>, <<"bk", "a">>}
DigestContents == {Data(<<>>), Data(<<48>>)}
DigestTrees == UNION {[P -> DigestContents] : P \in SUBSET DigestPaths}
Reverse(q) == [i \in 1..Len(q) |-> q[Len(q) + 1 - i]]
Enumerations == {SortedNames, Reverse(SortedNames)}

InitDigest ==
  /\ dg \in [a : DigestTrees, b : DigestTrees, ea : Enumerations, eb : Enumerations,
              da : {<<>>}, db : {<<>>}, done : {FALSE}]
  /\ cfg = [max_backups |-> 1, skip_locked_files |-> FALSE, loc |-> "outside"]
  /\ save = EmptyFiles
  /\ root = NoRoot
  /\ rootExists = TRUE
  /\ pc = "idle"
  /\ op = NoOp
  /\ ret = Returned("construct", TRUE, NoName)
  /\ hist = [crashed |-> FALSE, errors |-> FALSE, plain |-> TRUE, creates |-> <<>>,
             unpruned |-> FALSE, made |-> NoMade,
             second |-> FALSE, faulty |-> FALSE, firstFaulty |-> FALSE,
             worked |-> FALSE, cleanup |-> "none", choice |-> 0, io |-> {},
             interrupted |-> NoName, staged |-> EmptyFiles, twins |-> FALSE,
             torn |-> NoName, whole |-> EmptyFiles]
  /\ nops = 0
  /\ ncrashes = 0
  /\ nfaults = 0
  /\ nedits = 0
  /\ ui = NoUi
  /\ sc = NoCopy
  /\ m2 = NoScan

ComputeDigests ==
  /\ ~dg.done
  /\ dg' = [dg EXCEPT !.da = Digest(dg.a, dg.ea), !.db = Digest(dg.b, dg.eb),
                      !.done = TRUE]
  /\ UNCHANGED <<ui, sc, m2, cfg, save, root, rootExists, pc, op, ret, hist, nops, ncrashes,
                 nfaults, nedits>>

NextDigest == ComputeDigests

SpecDigest == InitDigest /\ [][NextDigest]_vars

\* ------------------------------------------------------------------ _safe_copy
\* One call of _safe_copy on a file, under every setting of retries,
\* retry_delay and skip_locked_files, on Windows (nt) or not; the outcome of
\* each shutil.copy2 and of each Win32 read is free.  tries counts the calls of
\* copy2, slept keeps the arguments of time.sleep
LastAttempt(retries) == IF retries > 1 THEN retries ELSE 1

InitCopy ==
  /\ sc \in [retries : (0 - 1)..MaxRetries, retry_delay : 1..MaxDelay,
              skip_locked_files : BOOLEAN, nt : BOOLEAN,
              attempt : {1}, at : {"copy2"}, tries : {0}, slept : {<<>>},
              result : {"none"}]
  /\ dg = NoDigest
  /\ ui = NoUi
  /\ m2 = NoScan
  /\ cfg = [max_backups |-> 1, skip_locked_files |-> FALSE, loc |-> "outside"]
  /\ save = EmptyFiles
  /\ root = NoRoot
  /\ rootExists = TRUE
  /\ pc = "idle"
  /\ op = NoOp
  /\ ret = Returned("construct", TRUE, NoName)
  /\ hist = [crashed |-> FALSE, errors |-> FALSE, plain |-> TRUE, creates |-> <<>>,
             unpruned |-> FALSE, made |-> NoMade,
             second |-> FALSE, faulty |-> FALSE, firstFaulty |-> FALSE,
             worked |-> FALSE, cleanup |-> "none", choice |-> 0, io |-> {},
             interrupted |-> NoName, staged |-> EmptyFiles, twins |-> FALSE,
             torn |-> NoName, whole |-> EmptyFiles]
  /\ nops = 0
  /\ ncrashes = 0
  /\ nfaults = 0
  /\ nedits = 0

CopyOnly ==
  UNCHANGED <<dg, ui, m2, cfg, save, root, rootExists, pc, op, ret, hist, nops, ncrashes,
              nfaults, nedits>>

\* for attempt in range(1, max(1, retries) + 1): shutil.copy2
Copy2(ok) ==
  /\ sc.at = "copy2"
  /\ sc.attempt <= LastAttempt(sc.retries)
  /\ sc' = IF ok
             THEN [sc EXCEPT !.tries = @ + 1, !.at = "returned", !.result = "copied"]
             ELSE [sc EXCEPT !.tries = @ + 1,
                             !.at = IF sc.nt THEN "fallback" ELSE "failed"]
  /\ CopyOnly

\* on Windows _win_read_file_to_path; False or an exception leaves the failure
WinRead(ok) ==
  /\ sc.at = "fallback"
  /\ sc' = IF ok THEN [sc EXCEPT !.at = "returned", !.result = "copied"]
                 ELSE [sc EXCEPT !.at = "failed"]
  /\ CopyOnly

\* if attempt < self.retries: sleep retry_delay * attempt and go round again
SleepAndRetry ==
  /\ sc.at = "failed"
  /\ sc.attempt < sc.retries
  /\ sc' = [sc EXCEPT !.slept = Append(@, sc.retry_delay * sc.attempt),
                      !.attempt = @ + 1, !.at = "copy2"]
  /\ CopyOnly

\* else return without a copy when skip_locked_files, or raise the last error
GiveUp ==
  /\ sc.at = "failed"
  /\ ~(sc.attempt < sc.retries)
  /\ sc' = [sc EXCEPT !.at = "returned",
                      !.result = IF sc.skip_locked_files THEN "skipped" ELSE "raised"]
  /\ CopyOnly

NextCopy ==
  \/ \E ok \in BOOLEAN : Copy2(ok)
  \/ \E ok \in BOOLEAN : WinRead(ok)
  \/ SleepAndRetry
  \/ GiveUp

SpecCopy == InitCopy /\ [][NextCopy]_vars

\* ------------------------------------------------------------- the reference UI
\* BackupManagerApp (src/backup_gui.py) on one selected game.  The handlers of
\* the UI thread run one at a time (main is the engine call the UI thread is
\* in); create and restore run in worker threads, whose engine call lasts from
\* "engine" to "returned"; delete and cleanup run in the UI thread itself
UiQuiet == ui.main = "none"
\* the UI model leaves the engine's state aside
UiOnly ==
  UNCHANGED <<dg, sc, m2, cfg, save, root, rootExists, pc, op, ret, hist, nops, ncrashes,
              nfaults, nedits>>
FreeThread == \E i \in 1..MaxThreads : ui.threads[i] = NoThread
\* threading.Thread(target=..., daemon=True).start(); perform_restore hands
\* cursor_row to its worker
StartThread(k, row, named) ==
  LET i == CHOOSE j \in 1..MaxThreads : ui.threads[j] = NoThread
  IN [ui.threads EXCEPT ![i] = [kind |-> k, at |-> "started", row |-> row,
                                named |-> named, ok |-> FALSE]]

\* refresh_backup_list: the table is rebuilt from _get_backup_list, and the
\* cursor goes to the first row
Refreshed(u) == [u EXCEPT !.table = u.list, !.cursor = 1]

\* backups[backup_choice - 1] of restore_backup / delete_backup, 0 when the
\* number is refused
Resolve(l, i) == IF i >= 1 /\ i <= Len(l) THEN l[i] ELSE 0
Dropped(l, n) == SelectSeq(l, LAMBDA x : x # n)
\* create_backup has published, then _cleanup_old_backups
Pruned(l, keep) == IF Len(l) > keep THEN SubSeq(l, 1, keep) ELSE l

\* on_game_selected: initialize_backup_manager, refresh_backup_list
SelectGame ==
  /\ UiQuiet /\ ui.dialog = "none"
  /\ ~ui.manager
  /\ ui' = Refreshed([ui EXCEPT !.manager = TRUE])
  /\ UiOnly

\* the user moves the cursor of the backup table
MoveCursor(r) ==
  /\ UiQuiet /\ ui.dialog = "none"
  /\ ui.manager
  /\ r \in 1..Len(ui.table)
  /\ r # ui.cursor
  /\ ui' = [ui EXCEPT !.cursor = r]
  /\ UiOnly

\* on_create_backup: the worker thread is started at once
PressCreate ==
  /\ UiQuiet /\ ui.dialog = "none"
  /\ ui.manager
  /\ FreeThread
  /\ ui' = [ui EXCEPT !.threads = StartThread("create", 0, 0)]
  /\ UiOnly

\* on_restore_backup, on_delete_backup, on_cleanup_backups: the dialog is
\* shown; for a restore or a delete a row must be selected, and the dialog
\* names the backup of that row
PressWithDialog(k) ==
  /\ UiQuiet /\ ui.dialog = "none"
  /\ ui.manager
  /\ k # "cleanup" => ui.cursor <= Len(ui.table)
  /\ ui' = [ui EXCEPT !.dialog = k,
                      !.named = IF k = "cleanup" THEN 0 ELSE ui.table[ui.cursor]]
  /\ UiOnly

\* ConfirmDialog dismissed: the callback reads table.cursor_row now;
\* perform_restore starts a worker thread, perform_delete and perform_cleanup
\* call the engine in the UI thread (delete_backup takes the backup at that
\* number in the list as it is now)
Dismiss(confirmed) ==
  /\ UiQuiet /\ ui.dialog # "none"
  /\ IF ~confirmed THEN ui' = [ui EXCEPT !.dialog = "none", !.named = 0]
     ELSE IF ui.dialog = "restore"
       THEN /\ FreeThread
            /\ ui' = [ui EXCEPT !.dialog = "none", !.named = 0,
                                !.threads = StartThread("restore", ui.cursor, ui.named)]
       ELSE IF ui.dialog = "delete"
         THEN ui' = [ui EXCEPT !.dialog = "none", !.named = 0, !.main = "delete",
                               !.list = Dropped(@, Resolve(ui.list, ui.cursor)),
                               !.refresh = Resolve(ui.list, ui.cursor) # 0,
                               !.acted = [kind |-> "delete", named |-> ui.named,
                                          on |-> Resolve(ui.list, ui.cursor)]]
         ELSE ui' = [ui EXCEPT !.dialog = "none", !.named = 0, !.main = "cleanup",
                               !.list = Pruned(@, cfg.max_backups),
                               !.refresh = Len(ui.list) > cfg.max_backups]
  /\ UiOnly

\* delete_backup / _cleanup_old_backups returns to perform_delete /
\* perform_cleanup, which notifies the user of the outcome and refreshes the
\* table when something was removed
MainReturns ==
  /\ ui.main # "none"
  /\ ui' = [(IF ui.refresh THEN Refreshed(ui) ELSE ui)
              EXCEPT !.main = "none", !.notified = ui.main, !.refresh = FALSE]
  /\ UiOnly

\* backup_worker / restore_worker calls create_backup / restore_backup, which
\* takes the backup at number cursor_row + 1 in the list as it is now
WorkerCalls(i) ==
  /\ ui.threads[i].at = "started"
  /\ ui' = [ui EXCEPT !.threads[i].at = "engine",
                      !.acted = IF ui.threads[i].kind = "restore"
                                  THEN [kind |-> "restore", named |-> ui.threads[i].named,
                                        on |-> Resolve(ui.list, ui.threads[i].row)]
                                  ELSE @]
  /\ UiOnly

\* the engine call returns (a create_backup that worked has published under
\* a new name and pruned); call_from_thread hands the result to the UI thread
WorkerReturns(i, ok) ==
  /\ ui.threads[i].at = "engine"
  /\ (ui.threads[i].kind = "create" /\ ok) => ui.clock <= MaxTime
  /\ ui' = IF ui.threads[i].kind = "create" /\ ok
             THEN [ui EXCEPT !.threads[i].at = "returned", !.threads[i].ok = TRUE,
                             !.clock = @ + 1,
                             !.list = Pruned(<<ui.clock + 1>> \o @, cfg.max_backups)]
             ELSE [ui EXCEPT !.threads[i].at = "returned", !.threads[i].ok = ok]
  /\ UiOnly

\* on_backup_complete / on_restore_complete in the UI thread notifies the
\* user (and after a backup that worked refreshes the table); the thread has
\* ended
OnComplete(i) ==
  /\ UiQuiet
  /\ ui.threads[i].at = "returned"
  /\ ui' = [(IF ui.threads[i].kind = "create" /\ ui.threads[i].ok
               THEN Refreshed(ui) ELSE ui)
              EXCEPT !.threads[i] = NoThread, !.notified = ui.threads[i].kind]
  /\ UiOnly

InitUi ==
  /\ ui = [NoUi EXCEPT !.list = <<2, 1>>, !.clock = 2]
  /\ sc = NoCopy
  /\ m2 = NoScan
  /\ dg = NoDigest
  /\ cfg \in [max_backups : 1..(MaxKeep + 1), skip_locked_files : {FALSE},
              loc : {"outside"}]
  /\ save = FullSave
  /\ root = StockedRoot
  /\ rootExists = TRUE
  /\ pc = "idle"
  /\ op = NoOp
  /\ ret = Returned("construct", TRUE, NoName)
  /\ hist = [crashed |-> FALSE, errors |-> FALSE, plain |-> FALSE, creates |-> <<>>,
             unpruned |-> FALSE, made |-> NoMade,
             second |-> FALSE, faulty |-> FALSE, firstFaulty |-> FALSE,
             worked |-> FALSE, cleanup |-> "none", choice |-> 0, io |-> {},
             interrupted |-> NoName, staged |-> EmptyFiles, twins |-> FALSE,
             torn |-> NoName, whole |-> EmptyFiles]
  /\ nops = 0
  /\ ncrashes = 0
  /\ nfaults = 0
  /\ nedits = 0

NextUi ==
  \/ SelectGame
  \/ \E r \in 1..(MaxTime + 1) : MoveCursor(r)
  \/ PressCreate
  \/ \E k \in {"restore", "delete", "cleanup"} : PressWithDialog(k)
  \/ \E confirmed \in BOOLEAN : Dismiss(confirmed)
  \/ MainReturns
  \/ \E i \in 1..MaxThreads : WorkerCalls(i)
  \/ \E i \in 1..MaxThreads, ok \in BOOLEAN : WorkerReturns(i, ok)
  \/ \E i \in 1..MaxThreads : OnComplete(i)

SpecUi == InitUi /\ [][NextUi]_vars

\* ------------------------------------------------------------- properties
Min(a, b) == IF a < b THEN a ELSE b
Increasing(q) == \A i \in 1..(Len(q) - 1) : q[i] < q[i + 1]
NonDecreasing(q) == \A i \in 1..(Len(q) - 1) : q[i] <= q[i + 1]
\* an entry holds every file its copy was to bring
Complete(n) == root[n].pending = {}

\* C1: with crashes at any step and restarts, and no file-system call failing,
\* every directory that List() returns is complete
C1_ListedComplete ==
  nfaults = 0 => \A i \in DOMAIN List : Complete(List[i])

\* C2: while a create_backup runs, with no crash and no failed call so far,
\* the entry of its final name is complete whenever List() returns it, on the
\* rename path and on the copy-then-delete path
C2_AtomicVisibility ==
  (op.kind = "create" /\ ~hist.crashed /\ ~hist.errors /\ op.name \in Range(List))
    => Complete(op.name)

\* C3: no temp dir (.backup_<ts>.<suffix>) of the backup root is in List(),
\* the directory a create_backup copies into is not in it, and what a restore
\* or a delete selects is no temp dir
C3_StagingNeverListed ==
  /\ \A n \in DOMAIN root : IsTmpName(n) => n \notin Range(List)
  /\ pc \in {"copy", "publish", "move"} => op.tmp \notin Range(List)
  /\ op.kind = "restore" => ~IsTmpName(op.name)
  /\ ret.op = "delete" => ~IsTmpName(ret.val)

C3_Witness ==
  /\ pc = "copy"
  /\ op.tmp \in DOMAIN root
  /\ IsTmpName(op.tmp)
  /\ List # <<>>

C5_PruneKeepsNewest ==
  (pc = "prune" /\ op.queue = <<>> /\ ~op.undeleted)
    => List = SubSeq(op.before, 1, Min(op.keep, Len(op.before)))

C5_Witness ==
  /\ pc = "prune"
  /\ op.queue = <<>>
  /\ ~op.undeleted
  /\ Len(op.before) > op.keep
  /\ Len(List) = op.keep

\* C6: a restore of the snapshot that the last create_backup returned, with
\* the backup root outside the save directory, every entry of the save
\* directory removed and no call failing, ends with a save directory whose
\* digest is the digest it had when that create_backup began
C6_RoundTrip ==
  (/\ pc = "rcopy"
   /\ op.items = {}
   /\ op.name = hist.made.name
   /\ ~op.left
   /\ cfg.loc = "outside"
   /\ nfaults = 0)
    => compute_directory_sha256(save) = hist.made.digest

Published ==
  LET n == FinalBase(hist.interrupted)
  IN /\ n \in Range(List)
     /\ hist.interrupted \notin DOMAIN root
     /\ \A p \in DOMAIN hist.staged \ {MetaPath} :
          p \in DOMAIN root[n].files /\ root[n].files[p] = hist.staged[p]
     /\ MetaPath \in DOMAIN root[n].files
     /\ root[n].files[MetaPath].meta.recovered
     /\ root[n].files[MetaPath].meta.move_method \in {"recovered_atomic", "recovered_copied"}

C9_RestoreKeepsBackupRoot ==
  op.kind = "restore" => (rootExists /\ ~op.changed)

\* C10: when an entry of the save directory could not be removed, not by the
\* shell command either, the restore copies nothing and does not return success
C10_AbortWhenNotRemoved ==
  (op.kind = "restore" /\ op.left)
    => (op.restored = {} /\ ~(pc = "rcopy" /\ op.items = {}))

\* no copy of a skipped file among these files: what lies at the path of a
\* skipped file, if anything, is the description or the metadata file that
\* create_backup wrote itself
SkippedAbsent(files) ==
  \A p \in op.skipped :
    p \in DOMAIN files
      => \/ p = DescPath /\ op.desc > 0 /\ files[p] = TextFile(op.desc)
         \/ p = MetaPath /\ op.meta = "written" /\ files[p].meta.present

\* C11: a file whose every copy attempt failed: with skip_locked_files the
\* copy goes on, the file is absent from the temp dir and from the snapshot
\* published from it, and create_backup can return its path; without it the
\* copy is failed, nothing is published and create_backup returns None
C11_SkipOrFail ==
  /\ [](op.kind = "create" =>
          /\ op.skipped # {} => cfg.skip_locked_files
          /\ op.refused # {} => (~cfg.skip_locked_files /\ op.failed /\ pc = "copy")
          /\ (op.skipped # {} /\ pc = "copy" /\ NestedPath(cfg.loc) \notin ToCopy)
               => ~op.failed
          /\ pc \in {"copy", "publish"} => SkippedAbsent(root[op.tmp].files)
          /\ (pc \in {"move", "meta", "prune"} /\ op.name \in DOMAIN root)
               => SkippedAbsent(root[op.name].files))
  /\ [][(op.kind = "create" /\ op.refused # {} /\ pc' = "idle")
          => /\ ret' = Returned("create", FALSE, NoName)
             /\ GetBackupList(root') = GetBackupList(root)
             /\ op.name \in DOMAIN root => root'[op.name] = root[op.name]]_vars

C11_Witness ==
  /\ op.kind = "create"
  /\ pc = "prune"
  /\ op.queue = <<>>
  /\ op.skipped # {}
  /\ op.name \in Range(List)
  /\ \E p \in op.skipped : p \notin DOMAIN root[op.name].files

\* C12: the move_method in the metadata that a create_backup wrote is "atomic"
\* exactly when os.replace succeeded and "copied" exactly when os.replace met
\* EXDEV and shutil.move then succeeded; when the publish fails otherwise,
\* create_backup returns None and has published nothing under its final name
C12_PublishMethod ==
  /\ []((op.kind = "create" /\ op.rename = "EXDEV" /\ pc \in {"meta", "prune"})
          => (~op.failed /\ op.tmp \notin DOMAIN root))
  /\ []((op.kind = "create" /\ op.meta = "written" /\ op.name \in DOMAIN root)
          => LET m == root[op.name].files[MetaPath].meta
             IN /\ m.move_method \in {"atomic", "copied"}
                /\ m.move_method = "atomic" <=> op.rename = "ok"
                /\ m.move_method = "copied" <=> op.rename = "EXDEV")
  /\ [][(pc = "publish" /\ pc' = "idle")
          => /\ ret' = Returned("create", FALSE, NoName)
             /\ op.name \in DOMAIN root'
                  => (op.name \in DOMAIN root /\ root'[op.name] = root[op.name])]_vars

C12_Witness ==
  /\ op.kind = "create"
  /\ op.meta = "written"
  /\ op.rename = "EXDEV"
  /\ op.name \in DOMAIN root
  /\ root[op.name].files[MetaPath].meta.move_method = "copied"

\* C13: when the metadata of a new snapshot cannot be computed or written, the
\* snapshot is in the list the pruning starts from, the pruning runs with
\* max_backups as ever and removes the snapshot only as one of the excess
\* entries, and create_backup returns the snapshot's path
C13_MetadataBestEffort ==
  /\ []((op.kind = "create" /\ op.meta = "failed")
          => /\ pc = "prune"
             /\ op.keep = cfg.max_backups
             /\ op.name \in Range(op.before)
             /\ op.name \in Range(List) \/ op.name \in Range(Excess(op.before, op.keep)))
  /\ [][(pc = "meta" /\ pc' = "prune")
          => /\ op.name \in Range(GetBackupList(root'))
             /\ op'.before = GetBackupList(root')
             /\ op'.queue = Excess(op'.before, cfg.max_backups)]_vars
  /\ [][(op.kind = "create" /\ op.meta = "failed" /\ pc' = "idle")
          => ret' = Returned("create", TRUE, op.name)]_vars

C13_Witness ==
  /\ pc = "idle"
  /\ ret.op = "create"
  /\ ret.ok
  /\ ret.val \in Range(List)
  /\ MetaPath \notin DOMAIN root[ret.val].files

\* no file lies under the save directory (a backup root nested in it counted)
ZeroFiles ==
  /\ DOMAIN save = {}
  /\ Nested => \A n \in DOMAIN root : DOMAIN root[n].files = {}

\* C14: a create_backup call on a save directory without any file returns None
\* without an error and leaves the backup root as it is: no temp dir, no
\* snapshot, nothing pruned
C14_NoDataNoChange ==
  [][(/\ pc = "idle"
      /\ nops' = nops + 1
      /\ pc' = "copy" \/ (pc' = "idle" /\ ret'.op = "create")
      /\ ZeroFiles)
       => /\ pc' = "idle"
          /\ ret' = Returned("create", FALSE, NoName)
          /\ root' = root
          /\ rootExists' = rootExists
          /\ save' = save
          /\ nfaults' = nfaults
          /\ hist'.errors = hist.errors]_vars

C14_Witness ==
  /\ pc = "idle"
  /\ ret = Returned("create", FALSE, NoName)
  /\ ZeroFiles
  /\ nops > 0
  /\ nfaults = 0
  /\ nedits = 0
  /\ ncrashes = 0

\* C15: a create_backup that returns None after mkdtemp made its temp dir (a
\* copy error, a description write error or a publish error) has removed that
\* temp dir from the backup root, unless the removal itself failed; the save
\* directory is as it was
C15_TempRemovedOnFailure ==
  [][(op.kind = "create" /\ pc \in {"copy", "publish", "move"} /\ pc' = "idle")
       => /\ ret' = Returned("create", FALSE, NoName)
          /\ save' = save
          /\ hist'.cleanup \in {"removed", "failed"}
          /\ hist'.cleanup = "removed" => op.tmp \notin DOMAIN root']_vars

C15_Witness ==
  /\ pc = "idle"
  /\ ret = Returned("create", FALSE, NoName)
  /\ hist.cleanup = "removed"
  /\ \A n \in DOMAIN root : ~IsTmpName(n)

\* C16: no step of a restore_backup changes the backup root: List() and every
\* snapshot are after the call what they were before it
C16_RestoreLeavesSnapshots ==
  [][(op.kind = "restore" \/ op'.kind = "restore") => root' = root]_vars

\* a restore_backup(i) / delete_backup(i) call begins (and, for the delete and
\* for a refused index, ends) in this step
Restoring ==
  /\ pc = "idle"
  /\ nops' = nops + 1
  /\ op'.kind = "restore" \/ (pc' = "idle" /\ ret'.op = "restore")
Deleting ==
  /\ pc = "idle"
  /\ nops' = nops + 1
  /\ pc' = "idle"
  /\ ret'.op = "delete"
Without(l, i) == SubSeq(l, 1, i - 1) \o SubSeq(l, i + 1, Len(l))

\* C17: restore_backup(i) and delete_backup(i) with i < 1 or i > len(backups)
\* return False and leave the save directory and the backup root alone; with
\* 1 <= i <= len(backups) they take the i-th entry of the newest-first list
C17_IndexResolution ==
  [][(Restoring \/ Deleting)
       => IF hist'.choice < 1 \/ hist'.choice > Len(List)
            THEN /\ pc' = "idle"
                 /\ ~ret'.ok
                 /\ save' = save
                 /\ root' = root
                 /\ rootExists' = rootExists
            ELSE /\ Restoring => (pc' = "rdelete" /\ op'.name = List[hist'.choice])
                 /\ Deleting => /\ ret'.val = List[hist'.choice]
                                /\ root' \in {root, Remove(root, List[hist'.choice])}
                                /\ save' = save]_vars

C17_Witness ==
  /\ pc = "rdelete"
  /\ op.kind = "restore"
  /\ hist.choice = 2
  /\ Len(List) >= 2
  /\ op.name = List[2]

\* C18: a delete_backup(i) that returns True has removed the i-th entry of the
\* list, sidecars included, and nothing else: the other entries of the backup
\* root are as they were and the list is the former list without its i-th entry
C18_DeleteExactlyOne ==
  [][(Deleting /\ ret'.ok)
       => /\ DOMAIN root' = DOMAIN root \ {List[hist'.choice]}
          /\ \A n \in DOMAIN root' : root'[n] = root[n]
          /\ GetBackupList(root') = Without(List, hist'.choice)
          /\ Len(List) = 1 => GetBackupList(root') = <<>>
          /\ save' = save]_vars

C18_Witness ==
  /\ pc = "idle"
  /\ ret.op = "delete"
  /\ ret.ok
  /\ ret.val \notin DOMAIN root
  /\ List # <<>>
  /\ nops = 1

\* C19: two directories with the same files get the same digest, whatever the
\* orders in which the file system enumerates each of them
C19_DigestDeterministic ==
  (dg.done /\ dg.a = dg.b) => dg.da = dg.db

C19_Witness ==
  /\ dg.done
  /\ dg.a = dg.b
  /\ dg.ea # dg.eb
  /\ DOMAIN dg.a = DigestPaths
  /\ dg.da = dg.db

\* C20: two directories that differ in a file's path, size or content, or in
\* their sets of files, get different digests
C20_DigestSeparates ==
  (dg.done /\ dg.a # dg.b) => dg.da # dg.db

\* a create_backup, restore_backup or delete_backup call returns in this step
Returns ==
  /\ pc' = "idle"
  /\ pc # "idle" \/ nops' = nops + 1
  /\ ret'.op \in {"create", "restore", "delete"}

\* steps whose failure makes the call return None / False: mkdtemp and the
\* rmtree of delete_backup (both fail in the step that begins the call), a
\* copy without skip_locked_files, the description, the publish, the move, a
\* removal of the restore that raises another error than PermissionError, a
\* copy of the restore
Fatal(io) ==
  \/ io \cap {"idle", "desc", "publish", "move", "rdelete_raised", "rcopy"} # {}
  \/ "copy" \in io /\ ~cfg.skip_locked_files

Executing ==
  Cardinality({i \in 1..MaxThreads : ui.threads[i].at = "engine"})
    + (IF ui.main # "none" THEN 1 ELSE 0)

\* C22: the UI never has two engine calls executing against the backup root
\* of the selected game
C22_UiSerializes ==
  Executing <= 1

\* C23: a deletion of the pruning that fails does not end the pruning: the
\* loop goes on with the next excess snapshot, at its end every excess
\* snapshot is gone but those whose deletion failed, and the create_backup
\* that pruned returns the path of its snapshot
C23_PruneGoesOn ==
  /\ [][(pc = "prune" /\ op.queue # <<>> /\ pc' = "prune")
          => /\ op'.queue = Tail(op.queue)
             /\ Head(op.queue) \in DOMAIN root' => Head(op.queue) \in op'.stuck]_vars
  /\ []((pc = "prune" /\ op.queue = <<>>)
          => \A n \in Range(Excess(op.before, op.keep)) :
               n \notin DOMAIN root \/ n \in op.stuck)
  /\ [][(op.kind = "create" /\ pc = "prune" /\ op.stuck # {} /\ pc' = "idle")
          => ret' = Returned("create", TRUE, op.name)]_vars

C23_Witness ==
  /\ op.kind = "create"
  /\ pc = "prune"
  /\ op.queue = <<>>
  /\ Len(Excess(op.before, op.keep)) >= 2
  /\ op.stuck # {}
  /\ \E n \in Range(Excess(op.before, op.keep)) :
       /\ n \notin DOMAIN root
       /\ \E m \in op.stuck : NameLess(n, m)

\* C24: a call that fails while the recovery handles one temp dir does not end
\* the scan: the scan loses at most the entry it was at, goes on with the
\* others, and the construction returns only when no entry is left
C24_ScanGoesOn ==
  /\ [][(op.kind = "recover" /\ nfaults' > nfaults)
          => /\ op'.kind = "recover"
             /\ pc' \in {"recover", "move"}
             /\ Cardinality(op.todo \ op'.todo) <= 1]_vars
  /\ [][(op.kind = "recover" /\ pc' = "idle")
          => /\ op.todo = {}
             /\ ret' = Returned("construct", TRUE, NoName)]_vars

C24_Witness ==
  /\ pc = "idle"
  /\ ret.op = "construct"
  /\ nops = 0
  /\ "recover" \in hist.io
  /\ Stage(2, 1) \in DOMAIN root
  /\ Stage(1, 2) \notin DOMAIN root
  /\ Final(1) \in Range(List)

\* C30: when the scan of the recovery is over and no call of it failed, the
\* backup root holds no temp dir and every temp dir that held files has its
\* final name listed; no step of a recovery changes a snapshot that was
\* listed when the scan began
C30_RecoveryLeavesNoTemp ==
  /\ []((pc = "recover" /\ op.todo = {} /\ ~hist.faulty)
          => /\ \A n \in DOMAIN root : ~n.dot
             /\ \A e \in op.found : [dot |-> FALSE, ts |-> e.ts, sfx |-> 0] \in Range(List))
  /\ [][(op.kind = "recover" /\ op'.kind = "recover")
          => \A i \in DOMAIN op.before :
               /\ op.before[i] \in DOMAIN root'
               /\ root'[op.before[i]] = root[op.before[i]]]_vars

C30_Witness ==
  /\ pc = "recover"
  /\ op.todo = {}
  /\ ~hist.faulty
  /\ Cardinality(op.found) = 2
  /\ op.before = <<Final(2)>>
  /\ List = <<Final(2), Final(1)>>
  /\ DOMAIN root = {Final(1), Final(2)}

\* what the claim lets a snapshot leave out: a compiled-cache directory and a
\* file with a transient or compiled extension (the backup root, when nested,
\* is no part of save)
Artifact(p) ==
  \/ \E i \in 1..(Len(p) - 1) : p[i] = "__pycache__"
  \/ Ext(p[Len(p)]) \in {"pyc", "tmp"}

\* C25: without skip_locked_files, the snapshot of a create_backup that has
\* published it holds every file of the save directory that is no artifact,
\* at its path and with its content (the paths of the two sidecars, which
\* create_backup writes itself, left aside), and nothing of the backup root
C25_EverySourceFileCopied ==
  (/\ op.kind = "create"
   /\ pc \in {"meta", "prune"}
   /\ ~cfg.skip_locked_files
   /\ op.name \in DOMAIN root)
    => /\ \A p \in DOMAIN save \ {DescPath, MetaPath} :
            ~Artifact(p)
              => /\ p \in DOMAIN root[op.name].files
                 /\ root[op.name].files[p] = save[p]
       /\ \A p \in DOMAIN root[op.name].files : ~(Nested /\ p[1] = cfg.loc)

\* C26: show_progress is called once for each file copied or restored, its
\* first argument going up by exactly one from call to call (so the i-th call
\* reports i) and never above its second
C26_ProgressPerFile ==
  /\ \A i \in 1..Len(op.progress) :
       op.progress[i] = i /\ op.progress[i] <= op.total
  /\ pc = "rcopy" =>
       Len(op.progress) =
         Cardinality({p \in DOMAIN root[op.name].files : p[1] \in op.restored})

\* the steps of one create_backup, by the place the call is at
CreateAt(places) == op.kind = "create" /\ pc \in places
CreateAborts == pc' = "idle" /\ ~ret'.ok /\ ret'.val = NoName

\* C27 as claimed: the metadata sidecar is written before the snapshot is
\* published, so a create_backup whose snapshot stands under its final name
\* has written it; a failure before the publish aborts the call and none
\* after it does
C27_MetadataThenPublish ==
  /\ [](CreateAt({"meta", "prune"}) => op.meta # "none")
  /\ [][(CreateAt({"copy", "publish", "move"}) /\ pc' = "idle") => CreateAborts]_vars
  /\ [][CreateAt({"meta", "prune"}) => ~CreateAborts]_vars

\* C27 amended: create_backup goes from the staging (mkdtemp) to the copy, the
\* publish (with the move after EXDEV), the metadata write and the pruning, in
\* that order: the sidecar is written after the publish, into the directory
\* that stands under its final name while no staging directory is left; a
\* call that ends before the publish is done returns None, and a call that has
\* published returns the path of its snapshot whatever happens afterwards
C27_PublishThenMetadata ==
  /\ [](CreateAt({"copy", "publish"}) => op.tmp \in DOMAIN root /\ op.meta = "none")
  /\ [](CreateAt({"move"}) => op.meta = "none")
  /\ [](CreateAt({"meta"}) =>
          op.name \in DOMAIN root /\ op.tmp \notin DOMAIN root /\ op.meta = "none")
  /\ [](op.kind = "create" /\ op.meta # "none" => pc = "prune")
  /\ [][op.kind = "create" =>
          \/ pc = "copy" /\ pc' \in {"copy", "publish", "idle", "down"}
          \/ pc = "publish" /\ pc' \in {"move", "meta", "idle", "down"}
          \/ pc = "move" /\ pc' \in {"move", "meta", "idle", "down"}
          \/ pc = "meta" /\ pc' \in {"prune", "down"}
          \/ pc = "prune" /\ pc' \in {"prune", "idle", "down"}]_vars
  /\ [][(CreateAt({"copy", "publish", "move"}) /\ pc' = "idle") => CreateAborts]_vars
  /\ [][(CreateAt({"meta", "prune"}) /\ pc' = "idle")
          => ret' = Returned("create", TRUE, op.name)]_vars

\* a published snapshot whose metadata sidecar is not written yet
C27_Witness ==
  /\ CreateAt({"meta"})
  /\ op.name \in DOMAIN root
  /\ MetaPath \notin DOMAIN root[op.name].files

\* C28 as claimed: a file whose copy keeps failing gets the first attempt and
\* then `retries` more; time.sleep is called between one attempt and the next
\* with retry_delay times the number of the attempt that failed, and not after
\* the last; there is at least one attempt, and none after a success
C28_RetriesAfterFirstAttempt ==
  /\ sc.result \in {"skipped", "raised"} =>
       sc.tries = 1 + (IF sc.retries > 0 THEN sc.retries ELSE 0)
  /\ \A i \in 1..Len(sc.slept) : sc.slept[i] = sc.retry_delay * i
  /\ sc.at = "returned" => sc.tries >= 1 /\ Len(sc.slept) = sc.tries - 1
  /\ sc.result = "copied" => sc.at = "returned"

\* C29: the publish of a create_backup finds no entry under the final name,
\* and every entry of the backup root other than its own staging directory is
\* the same after it
C29_PublishUnderFreshName ==
  [][(op.kind = "create" /\ pc = "publish" /\ pc' \in {"meta", "move"})
       => /\ op.name \notin DOMAIN root
          /\ \A n \in DOMAIN root \ {op.tmp} :
               n \in DOMAIN root' /\ root'[n] = root[n]]_vars

\* C31: when restore_backup is about to return True, the save directory (the
\* backup root apart) holds exactly the files of the restored snapshot other
\* than its description, each with the snapshot's content
C31_RestoreExact ==
  (op.kind = "restore" /\ pc = "rcopy" /\ op.items = {})
    => LET f == root[op.name].files
           wanted == {p \in DOMAIN f : p[1] # DescName}
       IN /\ DOMAIN save = wanted
          /\ \A p \in wanted : save[p] = f[p]

\* C32: when create_backup returns the path of its snapshot, the pruning
\* being over, that snapshot is in the list of backups
C32_NewSnapshotListed ==
  (op.kind = "create" /\ pc = "prune" /\ op.queue = <<>>)
    => \E i \in 1..Len(List) : List[i] = op.name

\* C33: when create_backup returns None, the listed backups and what each of
\* them holds are what they were when the call began
C33_FailureChangesNothing ==
  [][(op.kind = "create" /\ pc' = "idle" /\ ~ret'.ok) => Listed(root') = op.listed]_vars

\* C34: a staging directory with files that a step of the recovery scan takes
\* away is either published under its final name with all its files, or had a
\* directory under its final name already; when its rename fails its files stay
C34_StagedFilesKept ==
  [][(op.kind = "recover" /\ pc = "recover")
       => \A e \in DOMAIN root :
            (IsTmpName(e) /\ WalkCount(root[e].files) > 0 /\ e \notin DOMAIN root')
              => \/ FinalBase(e) \in DOMAIN root
                 \/ /\ FinalBase(e) \in DOMAIN root'
                    /\ \A p \in DOMAIN root[e].files :
                         /\ p \in DOMAIN root'[FinalBase(e)].files
                         /\ root'[FinalBase(e)].files[p] = root[e].files[p]]_vars

\* C35: while a create_backup is between its mkdtemp and its publish, no step
\* takes its staging directory away (publishes or deletes it), no backup is
\* listed that lacks a file it should hold, and the call does not fail without
\* a failed file-system call of its own
C35_StagingLeftAlone ==
  /\ [][(InBetween /\ op.tmp \in DOMAIN root) => op.tmp \in DOMAIN root']_vars
  /\ [](\A n \in Range(List) : root[n].pending = {})
  /\ [][(InBetween /\ pc' = "idle" /\ nfaults' = 0) => ret'.ok]_vars

\* C36: the backup on which a restore_backup or a delete_backup of the UI acts
\* is the backup that the confirmation dialog named
C36_ActsOnNamed ==
  ui.acted.kind \in {"restore", "delete"} => ui.acted.on = ui.acted.named

\* C37: the checksum in the metadata sidecar of a listed backup is the digest
\* that compute_directory_sha256 gives for the directory of that backup
C37_ChecksumVerifies ==
  \A n \in Range(List) :
    (MetaPath \in DOMAIN root[n].files /\ root[n].files[MetaPath].meta.present)
      => root[n].files[MetaPath].meta.checksum = compute_directory_sha256(root[n].files)

\* C38: after the restart that follows a process stop inside a Prune or a
\* Delete, the snapshot that was being deleted is either not listed or listed
\* with its full content
C38_NoTornSnapshotListed ==
  (pc # "down" /\ hist.torn \in Range(List)) => root[hist.torn].files = hist.whole

\* C39: the copy phase of create_backup copies at most as many files as the
\* save directory held when the call started, wherever the backup root lies
C39_CopiesAtMostCounted ==
  CreateAt({"copy", "publish", "move", "meta", "prune"}) => Len(op.progress) <= op.total

====
